---- MODULE Spec2Model ----
(***************************************************************************)
(* A model of dulwich's git smart-protocol client (dulwich/client.py):     *)
(* the report-status parser, the push (send_pack) and the fetch            *)
(* (fetch_pack) conversations of TraditionalGitClient and HttpGitClient.   *)
(*                                                                         *)
(* Byte strings are sequences of one-character strings; Python's None is   *)
(* the one-element sequence <<"None">>, which no byte string equals.       *)
(***************************************************************************)
EXTENDS Integers, Sequences, FiniteSets, TLC

VARIABLES
    \* ---- ReportStatusParser (one instance) ----
    parser,       \* its fields: done, pack_status, ref_status_ok, ref_statuses
    rsp_log,      \* the packets given to handle_packet so far, in order
    rsp_raised,   \* what the latest handle_packet call raised ("none" when it returned)
    rsp_check,    \* the outcome of check() on the current state, NotCalled before it is called
    \* ---- one client and the one send_pack or fetch_pack call made on it ----
    transport,    \* "traditional" (TCP, SSH, subprocess) or "http"
    op,           \* "send" or "fetch": the call being made
    thin_packs,   \* GitClient.__init__'s thin_packs
    dumb,         \* HttpGitClient.dumb: "None", "True" or "False"
    calls,        \* the number of send_pack / fetch_pack calls begun on the client
    pc,           \* where the call stands
    advert,       \* the advertisement the server sent, as read by _read_refs
    refs,         \* the refs _read_refs returned (old_refs)
    ref_order,    \* the insertion order of refs' keys
    server_capabilities,  \* the list _read_refs returned, None when no line was read
    negotiated,   \* negotiated_capabilities
    written,      \* the packet lines (and pack) written so far, in order
    requests,     \* the connections opened and HTTP requests made, in order
    result,       \* Running, Returned(refs) or Raised(exception)
    progress_cb,  \* whether the caller passed a progress callback (else None)
    progress_data,\* the payloads passed to the progress callback, in order
    consumed,     \* the sideband packets read in the tail, in order
    determined,   \* determine_wants' answer: "not called", "None" or "value"
    eof_data,     \* what the tail's final proto.read() returned, None before it
    responses,    \* the HTTP responses received, in order
    \* ---- send_pack ----
    new_refs,     \* what determine_wants returned (when not None)
    have,         \* _handle_receive_pack_head's have list
    want,         \* _handle_receive_pack_head's want list
    generated,    \* the calls of generate_pack_contents, as <<have, want>>
    has_parser,   \* whether report_status_parser is a ReportStatusParser (else None)
    \* ---- fetch_pack ----
    wants,        \* what determine_wants returned
    walker,       \* the ids the graph walker has still to produce
    walker_calls, \* the number of next(graph_walker) calls
    acked,        \* the arguments of the graph_walker.ack calls, in order
    pack_data,    \* the payloads passed to the pack_data callback, in order
    head_reads,   \* the lines _handle_upload_pack_head has read
    fetch_pkt,    \* pkt of the fetch head and tail: the line read last, Unread before
    store_log,    \* the calls GitClient.fetch made on the object store and its pack, in order
    \* ---- one index file and the Index or codec call made on it ----
    ix_entries,   \* the entries the caller holds, in the order given
    ix_file,      \* the bytes of the index file, None while there is none
    ix_result,    \* what reading the file gave: an exception or a dict of entries
    ix_pc,        \* where the index scenario stands
    ix_pos,       \* the position of the byte of the file that was damaged, 0 for none
    ix_byname,    \* Index._byname of an Index object the caller works on
    ix_call,      \* the last call made on the Index or on commit_tree, and what it gave
    ix_gen,       \* the generator changes_from_tree returned: where it is suspended
    \* ---- one path written through GitFile objects ----
    gf_files,     \* the contents of the file at the path and of <path>.lock
    gf_writers,   \* per GitFile object opened for writing: its state and what it wrote
    gf_last       \* the last call made on a GitFile and the error it raised

rspVars == <<parser, rsp_log, rsp_raised, rsp_check>>

clientVars == <<transport, op, thin_packs, dumb, calls>>

callVars ==
    <<pc, advert, refs, ref_order, server_capabilities, negotiated, written, requests,
      result, progress_cb, progress_data, consumed, determined, eof_data, responses>>

sendVars == <<new_refs, have, want, generated, has_parser>>

fetchVars == <<wants, walker, walker_calls, acked, pack_data, head_reads,
      fetch_pkt, store_log>>

indexVars == <<ix_entries, ix_file, ix_result, ix_pc, ix_pos, ix_byname, ix_call, ix_gen>>

fileVars == <<gf_files, gf_writers, gf_last>>

vars == <<rspVars, clientVars, callVars, sendVars, fetchVars, indexVars, fileVars>>

(***************************************************************************)
(* Bounds of the model.                                                    *)
(***************************************************************************)
\* The number of handle_packet calls made on one ReportStatusParser.
MaxPkts == 4
\* The number of packets a call reads in its tail before the flush.
MaxTail == 2
\* The number of ACKs after which the server sends no line that keeps the ACK loop
\* after `done` going.
MaxAcks == 2
\* The number of calls made on one client.
MaxCalls == 2
\* The length of the longest ASCII path of an index entry.
MaxPath == 9
\* The number of entries of an index.
MaxEntries == 2
\* The number of entries of an index file that gets a byte damaged.
MaxDamagedEntries == 1
\* The number of paths the operations on an Index object use.
MaxOpNames == 3
\* The number of blobs passed to commit_tree.
MaxBlobs == 3
\* The number of writes made through one GitFile.
MaxWrites == 2
\* The number of ref names the old and new refs of a push head are drawn over.
MaxRefs == 2
\* The number of calls that change the index while a generator of changes_from_tree
\* exists.
MaxTouches == 1

(***************************************************************************)
(* Byte strings.                                                           *)
(***************************************************************************)
None == <<"None">>

\* The byte 0x0b (vertical tab), which has no escape in a TLA+ string.
VT == "\\x0b"

\* bytes.strip() removes ASCII whitespace at both ends: b" \t\n\r\x0b\x0c".
IsSpace(c) == c \in {" ", "\t", "\n", "\r", VT, "\f"}

RECURSIVE lstrip(_)
lstrip(s) == IF s # <<>> /\ IsSpace(Head(s)) THEN lstrip(Tail(s)) ELSE s

RECURSIVE rstrip(_)
rstrip(s) ==
    IF s # <<>> /\ IsSpace(s[Len(s)]) THEN rstrip(SubSeq(s, 1, Len(s) - 1)) ELSE s

strip(s) == rstrip(lstrip(s))

\* prefix in bytes: s.startswith(prefix)
startswith(s, prefix) ==
    Len(s) >= Len(prefix) /\ SubSeq(s, 1, Len(prefix)) = prefix

\* b' ' in s
HasSpace(s) == \E i \in 1..Len(s) : s[i] = " "

\* The index of the first space of s (s has one).
FirstSpace(s) == CHOOSE i \in 1..Len(s) : s[i] = " " /\ \A j \in 1..(i - 1) : s[j] # " "

\* s.split(b' ', 1) for an s that holds a space: <<before, after>>.
split1(s) == <<SubSeq(s, 1, FirstSpace(s) - 1), SubSeq(s, FirstSpace(s) + 1, Len(s))>>

\* The protocol's words.
SP == <<" ">>
NL == <<"\n">>
W_unpack == <<"u", "n", "p", "a", "c", "k">>
W_ok == <<"o", "k">>
W_ng == <<"n", "g">>
W_bad == <<"b", "a", "d">>
W_error == <<"e", "r", "r", "o", "r">>
W_garbage == <<"g", "a", "r", "b", "a", "g", "e">>
REF_A == <<"r", "e", "f", "s", "/", "h", "e", "a", "d", "s", "/", "a">>
REF_B == <<"r", "e", "f", "s", "/", "h", "e", "a", "d", "s", "/", "b">>

UNPACK_OK == W_unpack \o SP \o W_ok

\* The status-report lines a server sends, as they arrive in handle_packet.
PKT_unpack_ok == UNPACK_OK \o NL
PKT_unpack_error == W_unpack \o SP \o W_error \o NL
PKT_ok_a == W_ok \o SP \o REF_A \o NL
PKT_ok_b == W_ok \o SP \o REF_B \o NL
PKT_ng_b_bad == W_ng \o SP \o REF_B \o SP \o W_bad \o NL
PKT_ng_a == W_ng \o SP \o REF_A \o NL
PKT_garbage == W_garbage \o NL
\* "unpack ok" followed by a form feed and a vertical tab, which strip() removes too.
PKT_unpack_ok_ff == UNPACK_OK \o <<"\f", VT>> \o NL

StatusPackets ==
    {PKT_unpack_ok, PKT_unpack_error, PKT_ok_a, PKT_ok_b, PKT_ng_b_bad, PKT_ng_a,
     PKT_garbage, PKT_unpack_ok_ff}

(***************************************************************************)
(* ReportStatusParser                                                      *)
(***************************************************************************)
\* __init__
NewParser ==
    [done |-> FALSE, pack_status |-> None, ref_status_ok |-> TRUE, ref_statuses |-> <<>>]

\* handle_packet without its guard on _done: packets after the flush are processed.
handle_packet_unguarded(p, pkt) ==
    IF pkt = None
    THEN [parser |-> [p EXCEPT !.done = TRUE], raised |-> "none"]
    ELSE IF p.pack_status = None
    THEN [parser |-> [p EXCEPT !.pack_status = strip(pkt)], raised |-> "none"]
    ELSE [parser |-> [p EXCEPT !.ref_statuses = Append(@, strip(pkt)),
                               !.ref_status_ok = @ /\ startswith(strip(pkt), W_ok \o SP)],
          raised |-> "none"]

\* handle_packet(pkt): the parser after the call and what the call raised.
handle_packet(p, pkt) ==
    IF p.done
    THEN [parser |-> p, raised |-> "GitProtocolError"]
    ELSE IF pkt = None
    THEN [parser |-> [p EXCEPT !.done = TRUE], raised |-> "none"]
    ELSE IF p.pack_status = None
    THEN [parser |-> [p EXCEPT !.pack_status = strip(pkt)], raised |-> "none"]
    ELSE [parser |-> [p EXCEPT !.ref_statuses = Append(@, strip(pkt)),
                               !.ref_status_ok = @ /\ startswith(strip(pkt), W_ok \o SP)],
          raised |-> "none"]

\* d[k] = v on a Python dict d; keys keeps the insertion order of d's keys.
DictSet(d, k, v) == [x \in (DOMAIN d) \cup {k} |-> IF x = k THEN v ELSE d[x]]

KeysAdd(keys, k) == IF \E i \in 1..Len(keys) : keys[i] = k THEN keys ELSE Append(keys, k)

\* One pass of check()'s loop over a status line; acc = [ref_status, keys, ok].
CheckStep(acc, status) ==
    IF ~HasSpace(status)
    THEN acc     \* malformed response, move on to the next one
    ELSE LET word == split1(status)[1]
             rest == split1(status)[2]
             ng == word = W_ng
             ref == IF ng /\ HasSpace(rest) THEN split1(rest)[1] ELSE rest
             st == IF ng /\ HasSpace(rest) THEN split1(rest)[2] ELSE word
         IN  [ref_status |-> DictSet(acc.ref_status, ref, st),
              keys |-> KeysAdd(acc.keys, ref),
              ok |-> IF ng THEN acc.ok ELSE acc.ok \cup {ref}]

RECURSIVE CheckLoop(_, _)
CheckLoop(acc, statuses) ==
    IF statuses = <<>> THEN acc
    ELSE CheckLoop(CheckStep(acc, Head(statuses)), Tail(statuses))

RECURSIVE NotIn(_, _)
NotIn(keys, ok) ==
    IF keys = <<>> THEN <<>>
    ELSE IF Head(keys) \in ok THEN NotIn(Tail(keys), ok)
    ELSE <<Head(keys)>> \o NotIn(Tail(keys), ok)

NoError == [exc |-> "none", msg |-> None, ref_status |-> <<>>, failed |-> <<>>]

\* check() with its two tests in the other order: ref statuses before the unpack status.
check_refs_first(p) ==
    IF ~p.ref_status_ok
    THEN LET acc == CheckLoop([ref_status |-> <<>>, keys |-> <<>>, ok |-> {}],
                              p.ref_statuses)
         IN  [exc |-> "UpdateRefsError", msg |-> None, ref_status |-> acc.ref_status,
              failed |-> NotIn(acc.keys, acc.ok)]
    ELSE IF p.pack_status \notin {UNPACK_OK, None}
    THEN [exc |-> "SendPackError", msg |-> p.pack_status, ref_status |-> <<>>,
          failed |-> <<>>]
    ELSE NoError

\* check() that takes a report without an unpack status line for a failed unpack.
check_status_required(p) ==
    IF p.pack_status # UNPACK_OK
    THEN [exc |-> "SendPackError", msg |-> p.pack_status, ref_status |-> <<>>,
          failed |-> <<>>]
    ELSE IF ~p.ref_status_ok
    THEN LET acc == CheckLoop([ref_status |-> <<>>, keys |-> <<>>, ok |-> {}],
                              p.ref_statuses)
         IN  [exc |-> "UpdateRefsError", msg |-> None, ref_status |-> acc.ref_status,
              failed |-> NotIn(acc.keys, acc.ok)]
    ELSE NoError

\* check(): the exception it raises (exc = "none" when it returns), the message of a
\* SendPackError, the ref_status of an UpdateRefsError and the refs its text lists.
check(p) ==
    IF p.pack_status \notin {UNPACK_OK, None}
    THEN [exc |-> "SendPackError", msg |-> p.pack_status, ref_status |-> <<>>,
          failed |-> <<>>]
    ELSE IF ~p.ref_status_ok
    THEN LET acc == CheckLoop([ref_status |-> <<>>, keys |-> <<>>, ok |-> {}],
                              p.ref_statuses)
         IN  [exc |-> "UpdateRefsError", msg |-> None, ref_status |-> acc.ref_status,
              failed |-> NotIn(acc.keys, acc.ok)]
    ELSE NoError

NotCalled == [exc |-> "not called", msg |-> None, ref_status |-> <<>>, failed |-> <<>>]

(***************************************************************************)
(* Values of the conversation.                                             *)
(***************************************************************************)
ZERO_SHA == "0000000000000000000000000000000000000000"
SHA1 == "1111111111111111111111111111111111111111"
SHA2 == "2222222222222222222222222222222222222222"
SHA3 == "3333333333333333333333333333333333333333"

COMMON_CAPABILITIES == <<"ofs-delta", "side-band-64k">>
FETCH_CAPABILITIES == <<"multi_ack", "multi_ack_detailed">> \o COMMON_CAPABILITIES
SEND_CAPABILITIES == <<"report-status">> \o COMMON_CAPABILITIES

\* x in a Python list
InList(x, l) == \E i \in 1..Len(l) : l[i] = x

\* list.remove(x): the list without its first x
RECURSIVE ListRemove(_, _)
ListRemove(l, x) ==
    IF l = <<>> THEN <<>>
    ELSE IF Head(l) = x THEN Tail(l)
    ELSE <<Head(l)>> \o ListRemove(Tail(l), x)

\* The empty dict of refs.
NoRefs == [r \in {} |-> ZERO_SHA]

\* The flush packet, write_pkt_line(None).
FLUSH == <<"0000">>

Running == [kind |-> "running", exc |-> "", msg |-> "", refs |-> NoRefs]
Returned(r) == [kind |-> "returned", exc |-> "", msg |-> "", refs |-> r]
Raised(e) == [kind |-> "raised", exc |-> e, msg |-> "", refs |-> NoRefs]
\* raise GitProtocolError(ref): the exception with its message.
RaisedMsg(e, m) == [kind |-> "raised", exc |-> e, msg |-> m, refs |-> NoRefs]

\* The service a call talks to.
Service == IF op = "send" THEN "git-receive-pack" ELSE "git-upload-pack"

\* The capability lists a server advertises.
ServerCapLists ==
    {<<>>,
     <<"report-status">>,
     <<"side-band-64k", "ofs-delta">>,
     <<"report-status", "side-band-64k", "ofs-delta", "multi_ack">>}

\* An advertisement line `<sha> <ref>[\0<capabilities>]\n`: nul says whether the line
\* holds a NUL, caps are the capabilities after it.
AdLine(sha, ref, nul, caps) == [sha |-> sha, ref |-> ref, nul |-> nul, caps |-> caps]

\* The advertisements a server sends: no line at all, one or two refs with the
\* capabilities on the first line (or no NUL on it), and an ERR line, alone or after
\* a ref.
Adverts ==
    {<<>>, <<AdLine("ERR", "access denied", FALSE, <<>>)>>,
     <<AdLine(SHA1, "refs/heads/a", TRUE, <<"side-band-64k">>),
       AdLine("ERR", "access denied", FALSE, <<>>)>>,
     <<AdLine(SHA1, "refs/heads/a", FALSE, <<>>)>>}
    \cup {<<AdLine(SHA1, "refs/heads/a", TRUE, c)>> : c \in ServerCapLists}
    \cup {<<AdLine(SHA1, "refs/heads/a", TRUE, c), AdLine(SHA2, "refs/heads/b", FALSE, <<>>)>> :
            c \in ServerCapLists}

\* extract_capabilities(text): the capability list after the NUL, empty without one.
extract_capabilities(line) == IF line.nul THEN line.caps ELSE <<>>

\* An ERR line read as if it named a ref.
ReadRefsStepErrAsRef(acc, line) ==
    IF acc.err # "" THEN acc
    ELSE [refs |-> [r \in (DOMAIN acc.refs) \cup {line.ref} |->
                        IF r = line.ref THEN line.sha ELSE acc.refs[r]],
          order |-> IF InList(line.ref, acc.order) THEN acc.order
                    ELSE Append(acc.order, line.ref),
          caps |-> IF acc.caps = None THEN extract_capabilities(line) ELSE acc.caps,
          err |-> ""]

\* _read_refs: acc = [refs, order, caps, err]; one advertisement line.
ReadRefsStep(acc, line) ==
    IF acc.err # "" THEN acc
    ELSE IF line.sha = "ERR" THEN [acc EXCEPT !.err = line.ref]
    ELSE [refs |-> [r \in (DOMAIN acc.refs) \cup {line.ref} |->
                        IF r = line.ref THEN line.sha ELSE acc.refs[r]],
          order |-> IF InList(line.ref, acc.order) THEN acc.order
                    ELSE Append(acc.order, line.ref),
          caps |-> IF acc.caps = None THEN extract_capabilities(line) ELSE acc.caps,
          err |-> ""]

RECURSIVE ReadRefsLoop(_, _)
ReadRefsLoop(acc, lines) ==
    IF lines = <<>> THEN acc
    ELSE ReadRefsLoop(ReadRefsStep(acc, Head(lines)), Tail(lines))

\* _read_refs(proto): the refs, their order, the server's capabilities (None when no
\* line was read) and, when a line's id field is ERR, its message in err.
read_refs(adv) ==
    ReadRefsLoop([refs |-> NoRefs, order |-> <<>>, caps |-> None, err |-> ""], adv)

\* The sequences that list each element of S once: the orders in which Python may
\* iterate over a set.
Orders(S) ==
    {o \in [1..Cardinality(S) -> S] :
        \A i, j \in 1..Cardinality(S) : i # j => o[i] # o[j]}

\* dict.get(name, ZERO_SHA)
Get(d, name) == IF name \in DOMAIN d THEN d[name] ELSE ZERO_SHA


(***************************************************************************)
(* The index codec (dulwich/index.py).  A file is a sequence of bytes      *)
(* (0..255); a path is a sequence of code points; a reader is the file     *)
(* and a position in it.                                                   *)
(***************************************************************************)
\* struct.pack(">L", n) and struct.pack(">H", n)
U32(n) == <<n \div 16777216, (n \div 65536) % 256, (n \div 256) % 256, n % 256>>
U16(n) == <<n \div 256, n % 256>>

\* struct.unpack of one big-endian field of 4 or 2 bytes
FromU32(b) == ((b[1] * 256 + b[2]) * 256 + b[3]) * 256 + b[4]
FromU16(b) == b[1] * 256 + b[2]

\* str.encode('utf-8') for code points below 2048: one byte below 128, else two.
RECURSIVE encode_utf8(_)
encode_utf8(name) ==
    IF name = <<>> THEN <<>>
    ELSE (IF Head(name) < 128 THEN <<Head(name)>>
          ELSE <<192 + (Head(name) \div 64), 128 + (Head(name) % 64)>>)
            \o encode_utf8(Tail(name))

\* bytes.decode('utf-8') of one- and two-byte sequences: [err, name]; err is TRUE for
\* a lead byte without its continuation byte, a stray continuation byte and an
\* overlong form.
RECURSIVE decode_utf8(_)
decode_utf8(b) ==
    IF b = <<>> THEN [err |-> FALSE, name |-> <<>>]
    ELSE IF b[1] < 128
    THEN LET rest == decode_utf8(Tail(b))
         IN  [err |-> rest.err, name |-> <<b[1]>> \o rest.name]
    ELSE IF b[1] >= 194 /\ b[1] < 224 /\ Len(b) >= 2 /\ b[2] >= 128 /\ b[2] < 192
    THEN LET rest == decode_utf8(Tail(Tail(b)))
         IN  [err |-> rest.err, name |-> <<(b[1] - 192) * 64 + (b[2] - 128)>> \o rest.name]
    ELSE [err |-> TRUE, name |-> <<>>]

\* What Read gives when f.read(n) raises ValueError("read length must be
\* non-negative or -1"): no byte string, bytes being 0..255.
ValueError == <<-1>>

\* f.read(n) at position pos of data, a buffered file opened "rb": the bytes there
\* are, at most n of them; n = -1 reads to the end, any n below raises ValueError.
Read(data, pos, n) ==
    IF n < -1 THEN ValueError
    ELSE IF n = -1 THEN SubSeq(data, pos + 1, Len(data))
    ELSE SubSeq(data, pos + 1, IF pos + n > Len(data) THEN Len(data) ELSE pos + n)

\* x & ~7 and the two halves of the flags field, for 0 <= x < 65536
AndNot7(x) == x - (x % 8)
NameLength(flags) == flags % 4096
HighFlags(flags) == flags - (flags % 4096)

\* A cache time as the caller gives it: an int of seconds or a (secs, nsecs) tuple.
IntTime(t) == [type |-> "int", v |-> <<t>>]
TupleTime(s, ns) == [type |-> "tuple", v |-> <<s, ns>>]

\* write_cache_time(f, t): the bytes written.
write_cache_time(t) ==
    IF t.type = "int" THEN U32(t.v[1]) \o U32(0)
    ELSE U32(t.v[1]) \o U32(t.v[2])

\* read_cache_time(f): (secs, nsecs) from the 8 bytes b.
read_cache_time(b) == TupleTime(FromU32(SubSeq(b, 1, 4)), FromU32(SubSeq(b, 5, 8)))

\* The fixed part of a record: two times and struct ">LLLLLL20sH".
HeaderSize == 62

\* Padding up to the next multiple of 8, none for a record that ends on one.
write_cache_entry_pad_ceil(entry) ==
    LET body == write_cache_time(entry.ctime) \o write_cache_time(entry.mtime)
                \o U32(entry.dev) \o U32(entry.ino) \o U32(entry.mode)
                \o U32(entry.uid) \o U32(entry.gid) \o U32(entry.size)
                \o entry.sha \o U16(Len(entry.name) + HighFlags(entry.flags))
                \o encode_utf8(entry.name)
        real_size == AndNot7(Len(body) + 7)
    IN  body \o [i \in 1..(real_size - Len(body)) |-> 0]

\* write_cache_entry(f, entry): the bytes written from beginoffset on.  flags gets
\* len(name), the length of the str, in its low 12 bits (names are shorter than 4096).
write_cache_entry(entry) ==
    LET body == write_cache_time(entry.ctime) \o write_cache_time(entry.mtime)
                \o U32(entry.dev) \o U32(entry.ino) \o U32(entry.mode)
                \o U32(entry.uid) \o U32(entry.gid) \o U32(entry.size)
                \o entry.sha \o U16(Len(entry.name) + HighFlags(entry.flags))
                \o encode_utf8(entry.name)
        real_size == AndNot7(Len(body) + 8)
    IN  body \o [i \in 1..(real_size - Len(body)) |-> 0]

\* read_cache_entry(f) with f at pos of data: [err, entry, pos].  A short read makes
\* struct.unpack raise struct.error, a name that is not UTF-8 makes decode raise.
read_cache_entry(data, pos) ==
    LET fixed == Read(data, pos, HeaderSize)
    IN  IF Len(fixed) < HeaderSize
        THEN [err |-> "struct.error", pos |-> Len(data)]
        ELSE LET flags == FromU16(SubSeq(fixed, 61, 62))
                 raw == Read(data, pos + HeaderSize, NameLength(flags))
                 name == decode_utf8(raw)
                 tell == pos + HeaderSize + Len(raw)
                 real_size == AndNot7(tell - pos + 8)
                 padding == Read(data, tell, pos + real_size - tell)
             IN  IF name.err
                 THEN [err |-> "UnicodeDecodeError", pos |-> tell]
                 ELSE [err |-> "",
                       pos |-> tell + Len(padding),
                       entry |-> [name |-> name.name,
                                  ctime |-> read_cache_time(SubSeq(fixed, 1, 8)),
                                  mtime |-> read_cache_time(SubSeq(fixed, 9, 16)),
                                  dev |-> FromU32(SubSeq(fixed, 17, 20)),
                                  ino |-> FromU32(SubSeq(fixed, 21, 24)),
                                  mode |-> FromU32(SubSeq(fixed, 25, 28)),
                                  uid |-> FromU32(SubSeq(fixed, 29, 32)),
                                  gid |-> FromU32(SubSeq(fixed, 33, 36)),
                                  size |-> FromU32(SubSeq(fixed, 37, 40)),
                                  sha |-> SubSeq(fixed, 41, 60),
                                  flags |-> HighFlags(flags)]]

\* b"DIRC"
DIRC == <<68, 73, 82, 67>>

\* The entries read so far as a dict: the paths in insertion order and the entry of
\* each (ret[x[0]] = tuple(x[1:]): the last record of a path wins).
EmptyDict == [keys |-> <<>>, byname |-> <<>>]
DictPut(d, entry) ==
    [keys |-> IF \E i \in 1..Len(d.keys) : d.keys[i] = entry.name THEN d.keys
              ELSE Append(d.keys, entry.name),
     byname |-> [i \in 1..Len(d.byname) |->
                    IF d.byname[i].name = entry.name THEN entry ELSE d.byname[i]]
                \o (IF \E i \in 1..Len(d.keys) : d.keys[i] = entry.name THEN <<>>
                    ELSE <<entry>>)]

\* The loop of read_index consumed by read_index_dict or Index.read: n records from
\* pos on, put into d; [err, dict, pos].
RECURSIVE ReadEntries(_, _, _, _)
ReadEntries(data, pos, n, d) ==
    IF n = 0 THEN [err |-> "", dict |-> d, pos |-> pos]
    ELSE LET r == read_cache_entry(data, pos)
         IN  IF r.err # "" THEN [err |-> r.err, dict |-> d, pos |-> r.pos]
             ELSE ReadEntries(data, r.pos, n - 1, DictPut(d, r.entry))

\* read_index without the two assertions on the header.
read_index_unvalidated(data) ==
    IF Len(Read(data, 4, 8)) < 8
    THEN [err |-> "struct.error", dict |-> EmptyDict, pos |-> Len(data)]
    ELSE ReadEntries(data, 12, FromU32(SubSeq(data, 9, 12)), EmptyDict)

\* read_index(f) driven to its end from the start of data, its entries put into a
\* dict: the magic, the version and the count, then the records.
read_index(data) ==
    IF Read(data, 0, 4) # DIRC
    THEN [err |-> "AssertionError", dict |-> EmptyDict, pos |-> Len(Read(data, 0, 4))]
    ELSE IF Len(Read(data, 4, 8)) < 8
    THEN [err |-> "struct.error", dict |-> EmptyDict, pos |-> Len(data)]
    ELSE IF FromU32(SubSeq(data, 5, 8)) \notin {1, 2}
    THEN [err |-> "AssertionError", dict |-> EmptyDict, pos |-> 12]
    ELSE ReadEntries(data, 12, FromU32(SubSeq(data, 9, 12)), EmptyDict)

\* read_index_dict(f): the dict, or the exception of read_index.
read_index_dict(data) ==
    IF read_index(data).err # "" THEN [err |-> read_index(data).err, dict |-> EmptyDict]
    ELSE [err |-> "", dict |-> read_index(data).dict]

\* The records of write_index, in the order given.
RECURSIVE WriteEntries(_)
WriteEntries(entries) ==
    IF entries = <<>> THEN <<>>
    ELSE write_cache_entry(Head(entries)) \o WriteEntries(Tail(entries))

\* write_index(f, entries): the bytes written.
write_index(entries) == DIRC \o U32(2) \o U32(Len(entries)) \o WriteEntries(entries)

\* a < b for two str, as sorted() compares them: by code point, a prefix first.
RECURSIVE NameLess(_, _)
NameLess(a, b) ==
    IF b = <<>> THEN FALSE
    ELSE IF a = <<>> THEN TRUE
    ELSE IF Head(a) # Head(b) THEN Head(a) < Head(b)
    ELSE NameLess(Tail(a), Tail(b))

\* The entries of the set S in ascending order of their names.
RECURSIVE SortedByName(_)
SortedByName(S) ==
    IF S = {} THEN <<>>
    ELSE LET first == CHOOSE e \in S : \A o \in S \ {e} : NameLess(e.name, o.name)
         IN  <<first>> \o SortedByName(S \ {first})

\* The entries of a dict written in the order they were set.
write_index_dict_unsorted(d) == write_index(d.byname)

\* write_index_dict(f, entries): the entries of the dict in sorted(entries) order.
write_index_dict(d) == write_index(SortedByName({d.byname[i] : i \in 1..Len(d.byname)}))

\* The sums the digest is made of, over data[lo..hi]: of the bytes, and of the bytes
\* times their positions.
RECURSIVE WeightedSum(_, _, _)
WeightedSum(data, lo, hi) ==
    IF lo > hi THEN [s0 |-> 0, s1 |-> 0]
    ELSE IF lo = hi THEN [s0 |-> data[lo], s1 |-> (lo * data[lo]) % 65536]
    ELSE LET mid == (lo + hi) \div 2
             left == WeightedSum(data, lo, mid)
             right == WeightedSum(data, mid + 1, hi)
         IN  [s0 |-> (left.s0 + right.s0) % 65536, s1 |-> (left.s1 + right.s1) % 65536]

\* The 20-byte digest SHA1Writer appends and SHA1Reader.check_sha() recomputes.  SHA-1
\* itself is stood in for by a 20-byte sum with the one property used here: changing
\* one byte of the data changes the digest.
sha1_digest(data) ==
    LET w == WeightedSum(data, 1, Len(data))
    IN  [k \in 1..20 |-> (w.s1 + k * w.s0) % 256]

\* The dict of a list of entries set one after the other (Index.__setitem__).
RECURSIVE DictOf(_, _)
DictOf(d, entries) ==
    IF entries = <<>> THEN d ELSE DictOf(DictPut(d, Head(entries)), Tail(entries))

\* Index.write(): write_index_dict through a SHA1Writer, which appends the digest of
\* what was written.
Index_write(d) == write_index_dict(d) \o sha1_digest(write_index_dict(d))

\* Index.read() without the final check_sha().
Index_read_unchecked(data, d) ==
    LET r == read_index(data)
    IN  [err |-> r.err, dict |-> DictOf(d, r.dict.byname)]

\* Index.read() on an existing file data, into an Index holding d: the records are
\* set into the Index as they are read, the bytes up to the last 20 are read as
\* unknown data (a ValueError of f.read when fewer than 19 bytes follow the records),
\* and check_sha() compares the digest of all that was read with the next 20 bytes;
\* [err, dict].
Index_read(data, d) ==
    LET r == read_index(data)
        entries == DictOf(d, r.dict.byname)
        rest == Read(data, r.pos, Len(data) - r.pos - 20)
        hashed == SubSeq(data, 1, r.pos + Len(rest))
        stored == Read(data, r.pos + Len(rest), 20)
    IN  IF r.err # "" THEN [err |-> r.err, dict |-> entries]
        ELSE IF rest = ValueError THEN [err |-> "ValueError", dict |-> entries]
        ELSE IF stored # sha1_digest(hashed) THEN [err |-> "ChecksumMismatch", dict |-> entries]
        ELSE [err |-> "", dict |-> entries]

\* del self._byname[name]: the dict without the path name.
DictDel(d, name) ==
    LET kept == {i \in 1..Len(d.keys) : d.keys[i] # name}
        at(k) == CHOOSE i \in kept : Cardinality({j \in kept : j < i}) = k - 1
    IN  [keys |-> [k \in 1..Cardinality(kept) |-> d.keys[at(k)]],
         byname |-> [k \in 1..Cardinality(kept) |-> d.byname[at(k)]]]

\* name in self._byname
InDict(d, name) == \E i \in 1..Len(d.keys) : d.keys[i] = name

\* set(self._byname.keys())
Keys(d) == {d.keys[i] : i \in 1..Len(d.keys)}

\* self[name]
GetItem(d, name) == d.byname[CHOOSE i \in 1..Len(d.keys) : d.keys[i] = name]

\* One side of a yielded pair: a value, or None.
Some(v) == [some |-> TRUE, v |-> v]
Nothing == [some |-> FALSE]

\* The tuple yielded for a path of the tree that the index holds, for one it does not
\* hold, and for a path of the index that the tree does not have.
Changed(t, mine) ==
    [paths |-> <<Some(t.name), Some(t.name)>>, modes |-> <<Some(t.mode), Some(mine.mode)>>,
     shas |-> <<Some(t.sha), Some(mine.sha)>>]
Removed(t) ==
    [paths |-> <<Some(t.name), Nothing>>, modes |-> <<Some(t.mode), Nothing>>,
     shas |-> <<Some(t.sha), Nothing>>]
Added(mine) ==
    [paths |-> <<Nothing, Some(mine.name)>>, modes |-> <<Nothing, Some(mine.mode)>>,
     shas |-> <<Nothing, Some(mine.sha)>>]

\* The comparison of an entry of the index with one of the tree, on the sha only.
Differs_sha_only(mine, t) == mine.sha # t.sha

\* self.get_sha1(name) != sha or self.get_mode(name) != mode
Differs(mine, t) == mine.sha # t.sha \/ mine.mode # t.mode

\* The generator object changes_from_tree(object_store, tree, want_unchanged) returns,
\* before its first next(): nothing of the body has run.  tree is what
\* iter_tree_contents yields; calls counts the calls that changed the index since,
\* touched records that one of them came after the first next().
NewGenerator(tree, want_unchanged) ==
    [state |-> "created", tree |-> tree, want_unchanged |-> want_unchanged, i |-> 0,
     mine |-> {}, order |-> <<>>, k |-> 0, yielded |-> <<>>, err |-> "",
     calls |-> 0, touched |-> FALSE]

\* The loop over the tree contents from item i on, against the index d as it is now:
\* up to the next yield (state "tree"), to a KeyError of get_sha1 or get_mode for a
\* name of mine the index no longer holds (state "raised"), or to the end of the loop
\* (state "mine").
RECURSIVE TreeLoop(_, _, _)
TreeLoop(g, d, i) ==
    IF i > Len(g.tree) THEN [g EXCEPT !.state = "mine", !.i = i]
    ELSE IF g.tree[i].name \notin g.mine
    THEN [g EXCEPT !.state = "tree", !.i = i, !.yielded = Append(@, Removed(g.tree[i]))]
    ELSE IF ~InDict(d, g.tree[i].name)
    THEN [g EXCEPT !.state = "raised", !.i = i, !.err = "KeyError"]
    ELSE IF g.want_unchanged \/ Differs(GetItem(d, g.tree[i].name), g.tree[i])
    THEN [g EXCEPT !.state = "tree", !.i = i,
                   !.yielded = Append(@, Changed(g.tree[i], GetItem(d, g.tree[i].name)))]
    ELSE TreeLoop([g EXCEPT !.mine = @ \ {g.tree[i].name}], d, i + 1)

\* The generator resumed in its first loop: the first next() takes mine from the
\* index as it is then; after a yield, mine.remove(name) runs for a name of mine and
\* the loop goes on.
Resume(g, d) ==
    IF g.state = "created" THEN TreeLoop([g EXCEPT !.mine = Keys(d)], d, 1)
    ELSE IF g.state = "tree"
    THEN TreeLoop([g EXCEPT !.mine = @ \ {g.tree[g.i].name}], d, g.i + 1)
    ELSE g

\* The set mine this next() enters the second loop with; empty when it does not.
Entered(g, d) ==
    IF g.state # "mine" /\ Resume(g, d).state = "mine" THEN Resume(g, d).mine ELSE {}

\* One next() on the generator of Index.changes_from_tree, against the index d as it
\* is now: the generator after it.  order is the order in which `for name in mine`
\* iterates the set, fixed when the loop is entered; a name of mine the index no
\* longer holds raises KeyError; the end of the loop is StopIteration ("done").
changes_from_tree(g, d, order) ==
    LET t == Resume(g, d)
        m == IF g.state = "mine" THEN g ELSE [t EXCEPT !.order = order, !.k = 0]
    IN  IF t.state # "mine" THEN t
        ELSE IF m.k = Len(m.order) THEN [m EXCEPT !.state = "done"]
        ELSE IF ~InDict(d, m.order[m.k + 1])
        THEN [m EXCEPT !.state = "raised", !.k = @ + 1, !.err = "KeyError"]
        ELSE [m EXCEPT !.k = @ + 1,
                       !.yielded = Append(@, Added(GetItem(d, m.order[m.k + 1])))]

\* A call changed the index from d1 to d2 while the generator g exists.
Touch(g, d1, d2) ==
    IF g.state = "none" \/ d1 = d2 THEN g
    ELSE [g EXCEPT !.calls = @ + 1, !.touched = @ \/ g.state \in {"tree", "mine"}]

(***************************************************************************)
(* Modes and the tree builder.                                             *)
(***************************************************************************)
\* stat.S_IFMT(mode): the file type bits of a mode below 2^16.
S_IFMT(mode) == (mode \div 4096) * 4096

\* mode & 0o111: the three execute bits.
ExecBits(mode) ==
    64 * ((mode \div 64) % 2) + 8 * ((mode \div 8) % 2) + (mode % 2)

\* cleanup_mode(mode): S_IFLNK (0o120000) for a symlink, S_IFDIR (0o040000) for a
\* directory, S_IFGITLINK (0o160000) for a submodule, else S_IFREG | 0o644 (33188)
\* with the execute bits of mode.
cleanup_mode(mode) ==
    IF S_IFMT(mode) = 40960 THEN 40960
    ELSE IF S_IFMT(mode) = 16384 THEN 16384
    ELSE IF S_IFMT(mode) = 57344 THEN 57344
    ELSE 33188 + ExecBits(mode)

\* pathsplit(path): <<dirname, basename>>, split at the last b"/" (47).
pathsplit(path) ==
    LET slashes == {i \in 1..Len(path) : path[i] = 47}
        last == CHOOSE i \in slashes : \A j \in slashes : j <= i
    IN  IF slashes = {} THEN <<(<<>>), path>>
        ELSE <<SubSeq(path, 1, last - 1), SubSeq(path, last + 1, Len(path))>>

\* pathjoin(a, b): the parts that are not empty, joined by b"/".
pathjoin(a, b) == IF a = <<>> THEN b ELSE IF b = <<>> THEN a ELSE a \o <<47>> \o b

\* The values of a node of trees: a blob (mode, sha), or the dict of a sub-directory.
Leaf(basename, mode, sha) == [name |-> basename, dir |-> FALSE, mode |-> mode, sha |-> sha]
SubDir(basename) == [name |-> basename, dir |-> TRUE, mode |-> 0, sha |-> <<>>]

\* add_tree that makes a new dict for a path that already has one.
RECURSIVE add_tree_anew(_, _)
add_tree_anew(trees, path) ==
    IF path = <<>> THEN trees
    ELSE LET t == add_tree_anew(trees, pathsplit(path)[1])
             linked == [t EXCEPT ![pathsplit(path)[1]] = DictPut(@, SubDir(pathsplit(path)[2]))]
         IN  (path :> EmptyDict) @@ linked

\* add_tree(path): trees after the call, which returns trees[path]; a new dict is
\* linked into the dict of the parent directory under its basename.
RECURSIVE add_tree(_, _)
add_tree(trees, path) ==
    IF path \in DOMAIN trees THEN trees
    ELSE LET t == add_tree(trees, pathsplit(path)[1])
             linked == [t EXCEPT ![pathsplit(path)[1]] = DictPut(@, SubDir(pathsplit(path)[2]))]
         IN  (path :> EmptyDict) @@ linked

\* The loop over blobs: trees after the blobs from i on, each a (path, sha, mode).
RECURSIVE AddBlobs(_, _, _)
AddBlobs(trees, blobs, i) ==
    IF i > Len(blobs) THEN trees
    ELSE LET split == pathsplit(encode_utf8(blobs[i].path))
             t == add_tree(trees, split[1])
         IN  AddBlobs([t EXCEPT ![split[1]] = DictPut(@, Leaf(split[2], blobs[i].mode,
                                                              blobs[i].sha))],
                      blobs, i + 1)

\* A Tree object, identified by its contents: the (basename, mode, sha) added to it,
\* whatever the order of the calls of add; its id stands for the hash of that.
TreeOf(added) == [tree |-> {added[i] : i \in 1..Len(added)}]

\* The id of a blob as a tree entry holds it.
BlobId(sha) == [blob |-> sha]

\* The sequences of a sequence, one after the other.
RECURSIVE Concat(_)
Concat(seqs) == IF seqs = <<>> THEN <<>> ELSE Head(seqs) \o Concat(Tail(seqs))

\* build_tree giving a sub-directory the mode of a regular file.
RECURSIVE build_tree_file_mode(_, _)
build_tree_file_mode(trees, path) ==
    LET node == trees[path].byname
        Sub(i) == build_tree_file_mode(trees, pathjoin(path, node[i].name))
        Add(i) == IF node[i].dir
                  THEN [name |-> node[i].name, mode |-> 33188, sha |-> Sub(i).id]
                  ELSE [name |-> node[i].name, mode |-> node[i].mode,
                        sha |-> BlobId(node[i].sha)]
        tree == TreeOf([i \in 1..Len(node) |-> Add(i)])
        subs == Concat([i \in 1..Len(node) |-> IF node[i].dir THEN Sub(i).added ELSE <<>>])
    IN  [id |-> tree,
         store |-> {tree} \cup UNION {Sub(i).store : i \in {i \in 1..Len(node) : node[i].dir}},
         added |-> Append(subs, [path |-> path, id |-> tree])]

\* build_tree adding a Tree to the object store before its sub-trees.
RECURSIVE build_tree_top_down(_, _)
build_tree_top_down(trees, path) ==
    LET node == trees[path].byname
        Sub(i) == build_tree_top_down(trees, pathjoin(path, node[i].name))
        Add(i) == IF node[i].dir
                  THEN [name |-> node[i].name, mode |-> 16384, sha |-> Sub(i).id]
                  ELSE [name |-> node[i].name, mode |-> node[i].mode,
                        sha |-> BlobId(node[i].sha)]
        tree == TreeOf([i \in 1..Len(node) |-> Add(i)])
        subs == Concat([i \in 1..Len(node) |-> IF node[i].dir THEN Sub(i).added ELSE <<>>])
    IN  [id |-> tree,
         store |-> {tree} \cup UNION {Sub(i).store : i \in {i \in 1..Len(node) : node[i].dir}},
         added |-> <<[path |-> path, id |-> tree]>> \o subs]

\* build_tree(path): the id of the Tree built for trees[path], the objects added to
\* the object store on the way and the add_object calls in order, each with the path
\* of its directory; a sub-directory gets S_IFDIR (0o040000).
RECURSIVE build_tree(_, _)
build_tree(trees, path) ==
    LET node == trees[path].byname
        Sub(i) == build_tree(trees, pathjoin(path, node[i].name))
        Add(i) == IF node[i].dir
                  THEN [name |-> node[i].name, mode |-> 16384, sha |-> Sub(i).id]
                  ELSE [name |-> node[i].name, mode |-> node[i].mode,
                        sha |-> BlobId(node[i].sha)]
        tree == TreeOf([i \in 1..Len(node) |-> Add(i)])
        subs == Concat([i \in 1..Len(node) |-> IF node[i].dir THEN Sub(i).added ELSE <<>>])
    IN  [id |-> tree,
         store |-> {tree} \cup UNION {Sub(i).store : i \in {i \in 1..Len(node) : node[i].dir}},
         added |-> Append(subs, [path |-> path, id |-> tree])]

\* commit_tree(object_store, blobs): the id returned, the objects stored and the
\* add_object calls.
commit_tree(blobs) == build_tree(AddBlobs((<<>> :> EmptyDict), blobs, 1), <<>>)
(***************************************************************************)
(* GitClient.__init__ and the start of a call.                             *)
(***************************************************************************)
RspIdle ==
    /\ parser = NewParser
    /\ rsp_log = <<>>
    /\ rsp_raised = "none"
    /\ rsp_check = NotCalled

SendIdle ==
    /\ new_refs = NoRefs
    /\ have = <<>>
    /\ want = <<>>
    /\ generated = <<>>
    /\ has_parser = FALSE

\* No line read yet by the fetch.
Unread == <<"unread">>

FetchIdle ==
    /\ wants = <<>>
    /\ walker = <<>>
    /\ walker_calls = 0
    /\ acked = <<>>
    /\ pack_data = <<>>
    /\ head_reads = 0
    /\ fetch_pkt = Unread
    /\ store_log = <<>>

\* What index.py has read: nothing yet.
NotRead == [err |-> "not read", dict |-> [keys |-> <<>>, byname |-> <<>>]]

\* No call made yet on the Index object.
NoCall == [op |-> "none"]

\* No generator of changes_from_tree exists.
NoGen == [state |-> "none"]

IndexIdle ==
    /\ ix_entries = <<>>
    /\ ix_file = None
    /\ ix_result = NotRead
    /\ ix_pc = "idle"
    /\ ix_pos = 0
    /\ ix_byname = [keys |-> <<>>, byname |-> <<>>]
    /\ ix_call = NoCall
    /\ ix_gen = NoGen

\* The GitFile objects a caller holds, and a path with its file and no lock file.
Writers == {1, 2}
Absent == <<"absent">>
OldContents == <<"old">>

GitFileIdle ==
    /\ gf_files = [target |-> OldContents, lock |-> Absent]
    /\ gf_writers = [w \in Writers |-> [state |-> "none", written |-> <<>>]]
    /\ gf_last = [w |-> 0, op |-> "none", err |-> ""]

CallInit ==
    /\ pc = "start"
    /\ advert = <<>>
    /\ refs = NoRefs
    /\ ref_order = <<>>
    /\ server_capabilities = None
    /\ negotiated = <<>>
    /\ written = <<>>
    /\ requests = <<>>
    /\ result = Running
    /\ progress_data = <<>>
    /\ consumed = <<>>
    /\ determined = "not called"
    /\ eof_data = None
    /\ responses = <<>>

ClientInit ==
    /\ transport \in {"traditional", "http"}
    /\ thin_packs \in BOOLEAN
    /\ dumb = "None"
    /\ calls = 1

\* A client that connects again after a failed call.
ConnectRetrying ==
    /\ \/ pc = "start"
       \/ pc = "done" /\ result.kind = "raised" /\ Len(requests) < 2
    /\ transport = "traditional"
    /\ requests' = Append(requests, <<"connect", Service>>)
    /\ \E adv \in Adverts :
        /\ advert' = adv
        /\ IF read_refs(adv).err # ""
           THEN /\ result' = RaisedMsg("GitProtocolError", read_refs(adv).err)
                /\ pc' = "done"
                /\ UNCHANGED <<refs, ref_order, server_capabilities>>
           ELSE /\ refs' = read_refs(adv).refs
                /\ ref_order' = read_refs(adv).order
                /\ server_capabilities' = read_refs(adv).caps
                /\ pc' = "advertised"
                /\ UNCHANGED result
    /\ UNCHANGED <<parser, rsp_log, rsp_raised, rsp_check, transport, op, thin_packs, dumb,
                   negotiated, written, progress_cb, progress_data, consumed, determined,
                   eof_data, responses, calls, new_refs, have, want, generated, has_parser,
                   wants, walker, walker_calls, acked, pack_data, head_reads, fetch_pkt,
                   store_log, ix_entries, ix_file, ix_result, ix_pc, ix_pos, ix_byname,
                   ix_call, ix_gen, gf_files, gf_writers, gf_last>>

\* TraditionalGitClient: _connect and _read_refs (send_pack and fetch_pack alike).
Connect ==
    /\ pc = "start"
    /\ transport = "traditional"
    /\ requests' = Append(requests, <<"connect", Service>>)
    /\ \E adv \in Adverts :
        /\ advert' = adv
        /\ IF read_refs(adv).err # ""
           THEN /\ result' = RaisedMsg("GitProtocolError", read_refs(adv).err)
                /\ pc' = "done"
                /\ UNCHANGED <<refs, ref_order, server_capabilities>>
           ELSE /\ refs' = read_refs(adv).refs
                /\ ref_order' = read_refs(adv).order
                /\ server_capabilities' = read_refs(adv).caps
                /\ pc' = "advertised"
                /\ UNCHANGED result
    /\ UNCHANGED <<parser, rsp_log, rsp_raised, rsp_check, transport, op, thin_packs, dumb,
                   negotiated, written, progress_cb, progress_data, consumed, determined,
                   eof_data, responses, calls, new_refs, have, want, generated, has_parser,
                   wants, walker, walker_calls, acked, pack_data, head_reads, fetch_pkt,
                   store_log, ix_entries, ix_file, ix_result, ix_pc, ix_pos, ix_byname,
                   ix_call, ix_gen, gf_files, gf_writers, gf_last>>

\* The line a smart server starts its info/refs response with.
ServiceMarker(service) == <<"# service=", service, "\n">>

\* What the first packet sequence of a discovery response may hold.
MarkerSeqs ==
    {<<ServiceMarker(Service)>>, <<>>, <<ServiceMarker("git-other")>>,
     <<ServiceMarker(Service), ServiceMarker("git-other")>>}

HTTP_OK == 200
HTTP_NOT_FOUND == 404

\* The status codes a server answers with.
HttpCodes == {HTTP_OK, HTTP_NOT_FOUND, 500}

\* A response to the GET of info/refs or to the POST of a service request: its status,
\* whether its content type is the one of the smart protocol (application/x-git-* for
\* a GET, application/x-<service>-result for a POST) and the first packet sequence
\* of its body.
Response(method, code, smart, pkts) ==
    [method |-> method, code |-> code, smart |-> smart, pkts |-> pkts]

\* A 404 treated as any other failure status.
HttpStatusErrorNo404(code) == IF code # HTTP_OK THEN "GitProtocolError" ELSE ""

\* The test of resp.getcode() in _discover_references and _smart_request: the
\* exception raised, "" for none.
HttpStatusError(code) ==
    IF code = HTTP_NOT_FOUND THEN "NotGitRepository"
    ELSE IF code # HTTP_OK THEN "GitProtocolError"
    ELSE ""

\* Only the first line of the sequence compared with the marker.
MarkerFirstOnly(pkts, service) == pkts # <<>> /\ pkts[1] = ServiceMarker(service)

\* pkts != [('# service=%s\n' % service)] fails: the first packet sequence is the
\* marker line and nothing else.
MarkerOk(pkts, service) == pkts = <<ServiceMarker(service)>>

\* HttpGitClient._discover_references: the GET of info/refs, the status and
\* content-type tests, the smart marker and _read_refs.
Discover ==
    /\ pc = "start"
    /\ transport = "http"
    /\ requests' = Append(requests,
            <<"GET", IF dumb # "False" THEN "info/refs?service=" ELSE "info/refs", Service>>)
    /\ \E code \in HttpCodes, smart \in BOOLEAN,
          pkts \in MarkerSeqs, adv \in Adverts :
        /\ responses' = Append(responses, Response("GET", code, smart, pkts))
        /\ IF HttpStatusError(code) # ""
           THEN /\ result' = Raised(HttpStatusError(code))
                /\ pc' = "done"
                /\ UNCHANGED <<dumb, advert, refs, ref_order, server_capabilities>>
           ELSE /\ dumb' = IF smart THEN "False" ELSE "True"
                /\ IF smart /\ ~MarkerOk(pkts, Service)
                   THEN /\ result' = Raised("GitProtocolError")
                        /\ pc' = "done"
                        /\ UNCHANGED <<advert, refs, ref_order, server_capabilities>>
                   ELSE /\ advert' = adv
                        /\ IF read_refs(adv).err # ""
                           THEN /\ result' = RaisedMsg("GitProtocolError", read_refs(adv).err)
                                /\ pc' = "done"
                                /\ UNCHANGED <<refs, ref_order, server_capabilities>>
                           ELSE /\ refs' = read_refs(adv).refs
                                /\ ref_order' = read_refs(adv).order
                                /\ server_capabilities' = read_refs(adv).caps
                                /\ pc' = "advertised"
                                /\ UNCHANGED result
    /\ UNCHANGED <<parser, rsp_log, rsp_raised, rsp_check, transport, op, thin_packs,
                   negotiated, written, progress_cb, progress_data, consumed, determined,
                   eof_data, calls, new_refs, have, want, generated, has_parser, wants,
                   walker, walker_calls, acked, pack_data, head_reads, fetch_pkt,
                   store_log, ix_entries, ix_file, ix_result, ix_pc, ix_pos, ix_byname,
                   ix_call, ix_gen, gf_files, gf_writers, gf_last>>

\* HttpGitClient._smart_request: the POST of the request body, the status and
\* content-type tests.
SmartRequest ==
    /\ pc = "post"
    /\ transport = "http"
    /\ requests' = Append(requests, <<"POST", Service>>)
    /\ \E code \in HttpCodes, result_type \in BOOLEAN :
        /\ responses' = Append(responses, Response("POST", code, result_type, <<>>))
        /\ IF HttpStatusError(code) # ""
           THEN result' = Raised(HttpStatusError(code)) /\ pc' = "done"
           ELSE IF ~result_type
           THEN result' = Raised("GitProtocolError") /\ pc' = "done"
           ELSE pc' = "tail" /\ UNCHANGED result
    /\ UNCHANGED <<parser, rsp_log, rsp_raised, rsp_check, transport, op, thin_packs, dumb,
                   advert, refs, ref_order, server_capabilities, negotiated, written,
                   progress_cb, progress_data, consumed, determined, eof_data, calls,
                   new_refs, have, want, generated, has_parser, wants, walker,
                   walker_calls, acked, pack_data, head_reads, fetch_pkt, store_log,
                   ix_entries, ix_file, ix_result, ix_pc, ix_pos, ix_byname, ix_call,
                   ix_gen, gf_files, gf_writers, gf_last>>

(***************************************************************************)
(* send_pack                                                               *)
(***************************************************************************)
\* dict d without key k (the caller's determine_wants leaves a ref out).
Without(d, k) == [r \in (DOMAIN d) \ {k} |-> d[r]]

\* dict d with d[k] = v.
With(d, k, v) == [r \in (DOMAIN d) \cup {k} |-> IF r = k THEN v ELSE d[r]]

\* What the caller's determine_wants(old_refs) may return, None apart: the old refs
\* themselves, a ref updated, created, set to the zero id or left out.
NewRefChoices(old) ==
    {old, With(old, "refs/heads/a", SHA3), With(old, "refs/heads/a", ZERO_SHA),
     With(old, "refs/heads/b", SHA1)}
    \cup {Without(old, k) : k \in DOMAIN old}

\* Every old ref id, the zero id included.
RECURSIVE OldHaveAll(_, _)
OldHaveAll(old, order) ==
    IF order = <<>> THEN <<>> ELSE <<old[Head(order)]>> \o OldHaveAll(old, Tail(order))

\* have = [x for x in old_refs.values() if not x == ZERO_SHA]
RECURSIVE OldHave(_, _)
OldHave(old, order) ==
    IF order = <<>> THEN <<>>
    ELSE IF old[Head(order)] = ZERO_SHA THEN OldHave(old, Tail(order))
    ELSE <<old[Head(order)]>> \o OldHave(old, Tail(order))

\* The loop body writing a line for every ref, changed or not.
HeadStepEveryRef(acc, caps, old, new, hv, refname) ==
    LET old_sha1 == Get(old, refname)
        new_sha1 == Get(new, refname)
        line == IF acc.sent THEN <<"update", old_sha1, new_sha1, refname>>
                ELSE <<"update", old_sha1, new_sha1, refname, caps>>
    IN  [lines |-> Append(acc.lines, line),
         sent |-> TRUE,
         want |-> IF ~InList(new_sha1, hv) /\ new_sha1 # ZERO_SHA
                  THEN Append(acc.want, new_sha1) ELSE acc.want]

\* The loop body taking a ref missing from the new refs as unchanged.
HeadStepKeepMissing(acc, caps, old, new, hv, refname) ==
    LET old_sha1 == Get(old, refname)
        new_sha1 == IF refname \in DOMAIN new THEN new[refname] ELSE old_sha1
        line == IF acc.sent THEN <<"update", old_sha1, new_sha1, refname>>
                ELSE <<"update", old_sha1, new_sha1, refname, caps>>
    IN  [lines |-> IF old_sha1 # new_sha1 THEN Append(acc.lines, line) ELSE acc.lines,
         sent |-> acc.sent \/ old_sha1 # new_sha1,
         want |-> IF ~InList(new_sha1, hv) /\ new_sha1 # ZERO_SHA
                  THEN Append(acc.want, new_sha1) ELSE acc.want]

\* The loop body attaching the capabilities to every line.
HeadStepCapsAlways(acc, caps, old, new, hv, refname) ==
    LET old_sha1 == Get(old, refname)
        new_sha1 == Get(new, refname)
        line == <<"update", old_sha1, new_sha1, refname, caps>>
    IN  [lines |-> IF old_sha1 # new_sha1 THEN Append(acc.lines, line) ELSE acc.lines,
         sent |-> acc.sent \/ old_sha1 # new_sha1,
         want |-> IF ~InList(new_sha1, hv) /\ new_sha1 # ZERO_SHA
                  THEN Append(acc.want, new_sha1) ELSE acc.want]

\* One pass of _handle_receive_pack_head's loop; acc = [lines, want, sent].
HeadStep(acc, caps, old, new, hv, refname) ==
    LET old_sha1 == Get(old, refname)
        new_sha1 == Get(new, refname)
        line == IF acc.sent THEN <<"update", old_sha1, new_sha1, refname>>
                ELSE <<"update", old_sha1, new_sha1, refname, caps>>
    IN  [lines |-> IF old_sha1 # new_sha1 THEN Append(acc.lines, line) ELSE acc.lines,
         sent |-> acc.sent \/ old_sha1 # new_sha1,
         want |-> IF ~InList(new_sha1, hv) /\ new_sha1 # ZERO_SHA
                  THEN Append(acc.want, new_sha1) ELSE acc.want]

RECURSIVE HeadLoop(_, _, _, _, _, _, _)
HeadLoop(acc, caps, old, new, hv, order, i) ==
    IF i > Cardinality(DOMAIN order) THEN acc
    ELSE HeadLoop(HeadStep(acc, caps, old, new, hv, order[i]), caps, old, new, hv, order,
                  i + 1)

\* _handle_receive_pack_head(proto, capabilities, old_refs, new_refs), the set of ref
\* names iterated in the given order: the lines written (the flush last), have, want.
receive_pack_head(caps, old, old_order, new, order) ==
    LET hv == OldHave(old, old_order)
        acc == HeadLoop([lines |-> <<>>, want |-> <<>>, sent |-> FALSE],
                        caps, old, new, hv, order, 1)
    IN  [lines |-> Append(acc.lines, FLUSH), have |-> hv, want |-> acc.want]

\* send_pack's negotiated_capabilities.
SendNegotiated ==
    IF transport = "traditional" /\ ~InList("report-status", server_capabilities)
    THEN ListRemove(SEND_CAPABILITIES, "report-status")
    ELSE SEND_CAPABILITIES

\* An abort that writes nothing on any transport.
AbortWritesNothing(w) == w

\* What send_pack has written when determine_wants returned None: the traditional
\* client writes a flush on its connection, the HTTP client builds no request.
AbortWrites(w) == IF transport = "traditional" THEN Append(w, FLUSH) ELSE w

\* send_pack from the negotiation of capabilities to determine_wants' answer.
SendDetermine ==
    /\ pc = "advertised"
    /\ op = "send"
    /\ IF transport = "traditional" /\ server_capabilities = None
       THEN \* b'report-status' not in None
            /\ result' = Raised("TypeError")
            /\ pc' = "done"
            /\ UNCHANGED <<negotiated, written, new_refs, determined>>
       ELSE /\ negotiated' = SendNegotiated
            /\ \/ \* determine_wants returns None
                  /\ determined' = "None"
                  /\ written' = AbortWrites(written)
                  /\ result' = Returned(refs)
                  /\ pc' = "done"
                  /\ UNCHANGED new_refs
               \/ \E new \in NewRefChoices(refs) :
                    /\ determined' = "value"
                    /\ new_refs' = new
                    /\ IF transport = "http" /\ dumb = "True"
                       THEN result' = Raised("NotImplementedError") /\ pc' = "done"
                       ELSE pc' = "head" /\ UNCHANGED result
                    /\ UNCHANGED written
    /\ UNCHANGED <<parser, rsp_log, rsp_raised, rsp_check, transport, op, thin_packs, dumb,
                   advert, refs, ref_order, server_capabilities, requests, progress_cb,
                   progress_data, consumed, eof_data, responses, calls, have, want,
                   generated, has_parser, wants, walker, walker_calls, acked, pack_data,
                   head_reads, fetch_pkt, store_log, ix_entries, ix_file, ix_result, ix_pc,
                   ix_pos, ix_byname, ix_call, ix_gen, gf_files, gf_writers, gf_last>>

\* _handle_receive_pack_head and send_pack's test of whether anything is to be sent.
SendHead ==
    /\ pc = "head"
    /\ op = "send"
    /\ \E order \in Orders((DOMAIN new_refs) \cup (DOMAIN refs)) :
        LET h == receive_pack_head(negotiated, refs, ref_order, new_refs, order)
        IN  /\ written' = written \o h.lines
            /\ have' = h.have
            /\ want' = h.want
            /\ IF h.want = <<>> /\ refs = new_refs
               THEN result' = Returned(new_refs) /\ pc' = "done"
               ELSE pc' = "generate" /\ UNCHANGED result
    /\ UNCHANGED <<parser, rsp_log, rsp_raised, rsp_check, transport, op, thin_packs, dumb,
                   advert, refs, ref_order, server_capabilities, negotiated, requests,
                   progress_cb, progress_data, consumed, determined, eof_data, responses,
                   calls, new_refs, generated, has_parser, wants, walker, walker_calls,
                   acked, pack_data, head_reads, fetch_pkt, store_log, ix_entries, ix_file,
                   ix_result, ix_pc, ix_pos, ix_byname, ix_call, ix_gen, gf_files,
                   gf_writers, gf_last>>

\* generate_pack_contents(have, want) and write_pack_objects; the HTTP client then
\* posts the request it has built.
SendGenerate ==
    /\ pc = "generate"
    /\ op = "send"
    /\ generated' = Append(generated, <<have, want>>)
    /\ \E objects \in {<<>>, <<"object">>} :
        written' = IF Len(objects) > 0 THEN Append(written, <<"PACK", objects>>)
                   ELSE written
    /\ pc' = IF transport = "http" THEN "post" ELSE "tail"
    /\ UNCHANGED <<parser, rsp_log, rsp_raised, rsp_check, transport, op, thin_packs, dumb,
                   advert, refs, ref_order, server_capabilities, negotiated, requests,
                   result, progress_cb, progress_data, consumed, determined, eof_data,
                   responses, calls, new_refs, have, want, has_parser, wants, walker,
                   walker_calls, acked, pack_data, head_reads, fetch_pkt, store_log,
                   ix_entries, ix_file, ix_result, ix_pc, ix_pos, ix_byname, ix_call,
                   ix_gen, gf_files, gf_writers, gf_last>>

\* _handle_receive_pack_tail up to its reads: the parser and the channel callbacks.
SendTail ==
    /\ pc = "tail"
    /\ op = "send"
    /\ has_parser' = InList("report-status", negotiated)
    /\ parser' = NewParser
    /\ pc' = "tail_read"
    /\ UNCHANGED <<rsp_log, rsp_raised, rsp_check, transport, op, thin_packs, dumb, advert,
                   refs, ref_order, server_capabilities, negotiated, written, requests,
                   result, progress_cb, progress_data, consumed, determined, eof_data,
                   responses, calls, new_refs, have, want, generated, wants, walker,
                   walker_calls, acked, pack_data, head_reads, fetch_pkt, store_log,
                   ix_entries, ix_file, ix_result, ix_pc, ix_pos, ix_byname, ix_call,
                   ix_gen, gf_files, gf_writers, gf_last>>

\* PktLineParser(handle_pkt).parse(data) for data that holds whole packet lines:
\* handle_pkt is called with each in turn; res = [parser, raised].
RECURSIVE PktLineParse(_, _)
PktLineParse(res, lines) ==
    IF lines = <<>> \/ res.raised # "none" THEN res
    ELSE PktLineParse(handle_packet(res.parser, Head(lines)), Tail(lines))

\* The packets of a push's sideband stream: status-report lines on channel 1,
\* progress on channel 2, an error on channel 3.
SendSidebandPkts ==
    {<<1, PKT_unpack_ok>>, <<1, PKT_unpack_error>>, <<1, PKT_ok_a, None>>,
     <<1, PKT_ng_b_bad, None>>, <<1, None>>, <<1, PKT_ok_a>>,
     <<2, "progress">>, <<3, "fatal">>}

\* The status-report packet lines of a push without sideband.
SendStatusPkts == {PKT_unpack_ok, PKT_unpack_error, PKT_ok_a, PKT_ng_b_bad}

\* An unknown channel discarded instead of refused.
ReceiveChannelsLenient(channel) ==
    IF channel = 2 THEN (IF progress_cb THEN "progress" ELSE "None")
    ELSE IF channel = 1 /\ has_parser THEN "parse"
    ELSE "None"

\* channel_callbacks of _handle_receive_pack_tail, looked up by
\* _read_side_band64k_data: 2 is progress (None when the caller gave none), 1 is the
\* status parser when report-status was negotiated, any other key is a KeyError.
ReceiveChannels(channel) ==
    IF channel = 2 THEN (IF progress_cb THEN "progress" ELSE "None")
    ELSE IF channel = 1 /\ has_parser THEN "parse"
    ELSE "KeyError"

\* _handle_receive_pack_tail's reading loop, one packet: _read_side_band64k_data when
\* side-band-64k was negotiated, else proto.read_pkt_seq() into the parser.
SendTailRead ==
    /\ pc = "tail_read"
    /\ op = "send"
    /\ IF InList("side-band-64k", negotiated)
       THEN \/ \* the flush ends read_pkt_seq
               /\ pc' = "check"
               /\ UNCHANGED <<parser, result, progress_data, consumed>>
            \/ /\ Len(consumed) < MaxTail
               /\ \E pkt \in SendSidebandPkts :
                    /\ consumed' = Append(consumed, pkt)
                    /\ IF ReceiveChannels(Head(pkt)) = "KeyError"
                       THEN \* Invalid sideband channel
                            /\ result' = Raised("AssertionError")
                            /\ pc' = "done"
                            /\ UNCHANGED <<parser, progress_data>>
                       ELSE IF ReceiveChannels(Head(pkt)) = "None"
                       THEN UNCHANGED <<parser, result, pc, progress_data>>
                       ELSE IF ReceiveChannels(Head(pkt)) = "progress"
                       THEN /\ progress_data' = Append(progress_data, Tail(pkt))
                            /\ UNCHANGED <<parser, result, pc>>
                       ELSE LET res == PktLineParse([parser |-> parser, raised |-> "none"],
                                                    Tail(pkt))
                            IN  /\ parser' = res.parser
                                /\ IF res.raised # "none"
                                   THEN result' = Raised(res.raised) /\ pc' = "done"
                                   ELSE UNCHANGED <<result, pc>>
                                /\ UNCHANGED progress_data
       ELSE IF has_parser
       THEN \/ /\ pc' = "check"
               /\ UNCHANGED <<parser, result, progress_data, consumed>>
            \/ /\ Len(consumed) < MaxTail
               /\ \E pkt \in SendStatusPkts :
                    /\ consumed' = Append(consumed, pkt)
                    /\ parser' = handle_packet(parser, pkt).parser
               /\ UNCHANGED <<result, pc, progress_data>>
       ELSE /\ pc' = "check"
            /\ UNCHANGED <<parser, result, progress_data, consumed>>
    /\ UNCHANGED <<rsp_log, rsp_raised, rsp_check, transport, op, thin_packs, dumb, advert,
                   refs, ref_order, server_capabilities, negotiated, written, requests,
                   progress_cb, determined, eof_data, responses, calls, new_refs, have,
                   want, generated, has_parser, wants, walker, walker_calls, acked,
                   pack_data, head_reads, fetch_pkt, store_log, ix_entries, ix_file,
                   ix_result, ix_pc, ix_pos, ix_byname, ix_call, ix_gen, gf_files,
                   gf_writers, gf_last>>

\* Whatever proto.read() returned, the call returns.
EofResultAny(data) == Returned(new_refs)

\* `if data: raise SendPackError(...)` after the wait for EOF; send_pack returns
\* new_refs otherwise.
EofResult(data) == IF data # <<>> THEN Raised("SendPackError") ELSE Returned(new_refs)

\* _handle_receive_pack_tail after its reads: report_status_parser.check(), then the
\* wait for EOF; send_pack then returns new_refs.
SendCheck ==
    /\ pc = "check"
    /\ op = "send"
    /\ pc' = "done"
    /\ IF has_parser /\ check(parser).exc # "none"
       THEN /\ rsp_check' = check(parser)
            /\ result' = Raised(check(parser).exc)
            /\ UNCHANGED eof_data
       ELSE /\ rsp_check' = IF has_parser THEN check(parser) ELSE rsp_check
            /\ \E data \in {<<>>, <<"x">>} :
                 /\ eof_data' = data
                 /\ result' = EofResult(data)
    /\ UNCHANGED <<parser, rsp_log, rsp_raised, transport, op, thin_packs, dumb, advert,
                   refs, ref_order, server_capabilities, negotiated, written, requests,
                   progress_cb, progress_data, consumed, determined, responses, calls,
                   new_refs, have, want, generated, has_parser, wants, walker,
                   walker_calls, acked, pack_data, head_reads, fetch_pkt, store_log,
                   ix_entries, ix_file, ix_result, ix_pc, ix_pos, ix_byname, ix_call,
                   ix_gen, gf_files, gf_writers, gf_last>>

SendInit ==
    /\ ClientInit
    /\ op = "send"
    /\ CallInit
    /\ progress_cb \in BOOLEAN
    /\ RspIdle
    /\ SendIdle
    /\ FetchIdle
    /\ IndexIdle
    /\ GitFileIdle

NextSend ==
    \/ Connect
    \/ Discover
    \/ SendDetermine
    \/ SendHead
    \/ SendGenerate
    \/ SmartRequest
    \/ SendTail
    \/ SendTailRead
    \/ SendCheck

SpecSend == SendInit /\ [][NextSend]_vars

(***************************************************************************)
(* fetch_pack                                                              *)
(***************************************************************************)
\* What the caller's determine_wants(refs) may return.
WantChoices == {None, <<>>, <<SHA1>>, <<SHA1, SHA2>>}

\* The ids a graph walker produces before it is exhausted.
Walkers == {<<>>, <<SHA2>>, <<SHA2, SHA3>>}

\* A test for None alone: an empty list counts as a selection.
WantsIsNone(w) == w = None

\* `not wants`: None and the empty list.
NotWants(w) == w = None \/ w = <<>>

\* fetch_pack's negotiated_capabilities: the client's own list for the traditional
\* client (thin-pack appended by __init__), the server's list for the HTTP client.
FetchNegotiated ==
    IF transport = "traditional"
    THEN IF thin_packs THEN Append(FETCH_CAPABILITIES, "thin-pack") ELSE FETCH_CAPABILITIES
    ELSE server_capabilities

\* fetch_pack from the negotiation of capabilities to determine_wants' answer.
FetchDetermine ==
    /\ pc = "advertised"
    /\ op = "fetch"
    /\ IF transport = "http" /\ server_capabilities = None
       THEN \* list(None)
            /\ result' = Raised("TypeError")
            /\ pc' = "done"
            /\ UNCHANGED <<negotiated, written, wants, determined>>
       ELSE /\ negotiated' = FetchNegotiated
            /\ \E w \in WantChoices :
                /\ wants' = w
                /\ determined' = IF w = None THEN "None" ELSE "value"
                /\ IF NotWants(w)
                   THEN /\ written' = IF transport = "traditional"
                                      THEN Append(written, FLUSH) ELSE written
                        /\ result' = Returned(refs)
                        /\ pc' = "done"
                   ELSE /\ IF transport = "http" /\ dumb = "True"
                           THEN result' = Raised("NotImplementedError") /\ pc' = "done"
                           ELSE pc' = "head" /\ UNCHANGED result
                        /\ UNCHANGED written
    /\ UNCHANGED <<parser, rsp_log, rsp_raised, rsp_check, transport, op, thin_packs, dumb,
                   advert, refs, ref_order, server_capabilities, requests, progress_cb,
                   progress_data, consumed, eof_data, responses, calls, new_refs, have,
                   want, generated, has_parser, walker, walker_calls, acked, pack_data,
                   head_reads, fetch_pkt, store_log, ix_entries, ix_file, ix_result, ix_pc,
                   ix_pos, ix_byname, ix_call, ix_gen, gf_files, gf_writers, gf_last>>

\* No want line after the first.
WantLines_first_only(ws) == <<>>

\* The want lines after the first.
RECURSIVE WantLines(_)
WantLines(ws) ==
    IF ws = <<>> THEN <<>> ELSE <<<<"want", Head(ws)>>>> \o WantLines(Tail(ws))

\* _handle_upload_pack_head up to its loop: the want lines and the flush.
FetchHead ==
    /\ pc = "head"
    /\ op = "fetch"
    /\ IF wants = <<>> \/ wants = None
       THEN \* wants[0]
            /\ result' = Raised(IF wants = None THEN "TypeError" ELSE "IndexError")
            /\ pc' = "done"
            /\ UNCHANGED written
       ELSE /\ written' = written \o <<<<"want", Head(wants), negotiated>>>>
                            \o WantLines(Tail(wants)) \o <<FLUSH>>
            /\ pc' = "next_have"
            /\ UNCHANGED result
    /\ UNCHANGED <<parser, rsp_log, rsp_raised, rsp_check, transport, op, thin_packs, dumb,
                   advert, refs, ref_order, server_capabilities, negotiated, requests,
                   progress_cb, progress_data, consumed, determined, eof_data, responses,
                   calls, new_refs, have, want, generated, has_parser, wants, walker,
                   walker_calls, acked, pack_data, head_reads, fetch_pkt, store_log,
                   ix_entries, ix_file, ix_result, ix_pc, ix_pos, ix_byname, ix_call,
                   ix_gen, gf_files, gf_writers, gf_last>>

\* After the have loop: `done` is written; the HTTP client then posts its request.
AfterHaves == IF transport = "http" THEN "post" ELSE "tail"

\* can_read() of any transport.
CanReadValues_any == BOOLEAN

\* What can_read() may return: the HTTP client passes `lambda: False`, the others
\* ask the connection.
CanReadValues == IF transport = "http" THEN {FALSE} ELSE BOOLEAN

\* _handle_upload_pack_head's loop, from next(graph_walker) to can_read(): the loop
\* ends with `done` when the walker is exhausted.
FetchNextHave ==
    /\ pc = "next_have"
    /\ op = "fetch"
    /\ walker_calls' = walker_calls + 1
    /\ IF walker = <<>>
       THEN /\ written' = Append(written, <<"done">>)
            /\ pc' = AfterHaves
            /\ UNCHANGED walker
       ELSE /\ written' = Append(written, <<"have", Head(walker)>>)
            /\ walker' = Tail(walker)
            /\ \E can_read \in CanReadValues :
                 pc' = IF can_read THEN "read_ack" ELSE "next_have"
    /\ UNCHANGED <<parser, rsp_log, rsp_raised, rsp_check, transport, op, thin_packs, dumb,
                   advert, refs, ref_order, server_capabilities, negotiated, requests,
                   result, progress_cb, progress_data, consumed, determined, eof_data,
                   responses, calls, new_refs, have, want, generated, has_parser, wants,
                   acked, pack_data, head_reads, fetch_pkt, store_log, ix_entries, ix_file,
                   ix_result, ix_pc, ix_pos, ix_byname, ix_call, ix_gen, gf_files,
                   gf_writers, gf_last>>

\* bytes.rstrip(b'\n') on a line of words, spaces and newlines.
RECURSIVE rstrip_nl(_)
rstrip_nl(s) ==
    IF s # <<>> /\ s[Len(s)] = "\n" THEN rstrip_nl(SubSeq(s, 1, Len(s) - 1)) ELSE s

\* bytes.split(b' '): the parts between the spaces, each a sequence.
RECURSIVE split(_)
split(s) ==
    IF ~HasSpace(s) THEN <<s>>
    ELSE <<SubSeq(s, 1, FirstSpace(s) - 1)>> \o split(SubSeq(s, FirstSpace(s) + 1, Len(s)))

\* The lines a server answers a have with.
Ack(sha, status) == <<"ACK", " ", sha, " ", status, "\n">>
HeadPkts ==
    {Ack(SHA2, "continue"), Ack(SHA2, "common"), Ack(SHA2, "ready"), Ack(SHA2, "bogus"),
     <<"ACK", " ", SHA2, "\n">>, <<"NAK", "\n">>}

\* Every status taken as one that keeps the have loop going.
HeadContinues_lenient(status) == status # <<"ready">>

\* `parts[2] in (b'continue', b'common')`
HeadContinues(status) == status \in {<<"continue">>, <<"common">>}

\* _handle_upload_pack_head's read of one line after a have.
FetchReadAck ==
    /\ pc = "read_ack"
    /\ op = "fetch"
    /\ head_reads' = head_reads + 1
    /\ \E pkt \in HeadPkts :
        LET parts == split(rstrip_nl(pkt)) IN
        /\ fetch_pkt' = pkt
        /\ IF parts[1] = <<"ACK">>
           THEN /\ acked' = Append(acked, parts[2])
                /\ IF Len(parts) < 3
                   THEN \* parts[2]
                        /\ result' = Raised("IndexError")
                        /\ pc' = "done"
                        /\ UNCHANGED written
                   ELSE IF HeadContinues(parts[3])
                   THEN pc' = "next_have" /\ UNCHANGED <<result, written>>
                   ELSE IF parts[3] = <<"ready">>
                   THEN /\ written' = Append(written, <<"done">>)
                        /\ pc' = AfterHaves
                        /\ UNCHANGED result
                   ELSE /\ result' = Raised("AssertionError")
                        /\ pc' = "done"
                        /\ UNCHANGED written
           ELSE pc' = "next_have" /\ UNCHANGED <<acked, result, written>>
    /\ UNCHANGED <<parser, rsp_log, rsp_raised, rsp_check, transport, op, thin_packs, dumb,
                   advert, refs, ref_order, server_capabilities, negotiated, requests,
                   progress_cb, progress_data, consumed, determined, eof_data, responses,
                   calls, new_refs, have, want, generated, has_parser, wants, walker,
                   walker_calls, pack_data, store_log, ix_entries, ix_file, ix_result,
                   ix_pc, ix_pos, ix_byname, ix_call, ix_gen, gf_files, gf_writers,
                   gf_last>>

\* The lines a server sends after `done`, before the pack.
TailPkts ==
    {None, <<"NAK", "\n">>, <<"ACK", " ", SHA2, "\n">>, Ack(SHA2, "continue"),
     Ack(SHA2, "common"), Ack(SHA2, "ready"), Ack(SHA2, "bogus")}

\* The server sends a bounded number of lines that keep the ACK loop going.
tail_reads_left == Len(acked) < MaxAcks

\* The break taken at a flush and at an unknown status only.
TailBreak_absent_continues(pkt) ==
    \/ pkt = None
    \/ /\ Len(split(rstrip_nl(pkt))) >= 3
       /\ split(rstrip_nl(pkt))[3] \notin {<<"ready">>, <<"continue">>, <<"common">>}

\* The loop condition and the break of _handle_upload_pack_tail's ACK loop: the loop
\* ends at a flush and after a line without one of the three continuing statuses.
TailBreak(pkt) ==
    \/ pkt = None
    \/ Len(split(rstrip_nl(pkt))) < 3
    \/ split(rstrip_nl(pkt))[3] \notin {<<"ready">>, <<"continue">>, <<"common">>}

\* _handle_upload_pack_tail's ACK loop, one read_pkt_line and one pass.
FetchTailAcks ==
    /\ pc = "tail"
    /\ op = "fetch"
    /\ \E pkt \in {p \in TailPkts : tail_reads_left \/ TailBreak(p)} :
        /\ acked' = IF pkt # None /\ split(rstrip_nl(pkt))[1] = <<"ACK">>
                    THEN Append(acked, split(pkt)[2])
                    ELSE acked
        /\ fetch_pkt' = pkt
        /\ pc' = IF TailBreak(pkt) THEN "tail_data" ELSE "tail"
    /\ UNCHANGED <<parser, rsp_log, rsp_raised, rsp_check, transport, op, thin_packs, dumb,
                   advert, refs, ref_order, server_capabilities, negotiated, written,
                   requests, result, progress_cb, progress_data, consumed, determined,
                   eof_data, responses, calls, new_refs, have, want, generated, has_parser,
                   wants, walker, walker_calls, pack_data, head_reads, store_log,
                   ix_entries, ix_file, ix_result, ix_pc, ix_pos, ix_byname, ix_call,
                   ix_gen, gf_files, gf_writers, gf_last>>

\* Channel 2 mistaken for the pack channel.
UploadChannelsMixed(channel) ==
    IF channel \in {1, 2} THEN "pack_data" ELSE "KeyError"

\* {1: pack_data, 2: progress}[channel]
UploadChannels(channel) ==
    IF channel = 1 THEN "pack_data" ELSE IF channel = 2 THEN "progress" ELSE "KeyError"

\* The packets of a fetch's sideband stream: a channel byte, then the payload.
FetchSidebandPkts == {<<c, d>> : c \in {1, 2, 3}, d \in {"x", "y"}}

\* _handle_upload_pack_tail after the ACK loop, one packet of
\* _read_side_band64k_data when side-band-64k was negotiated; without it the code
\* calls self.read, which no client class defines.
FetchTailData ==
    /\ pc = "tail_data"
    /\ op = "fetch"
    /\ IF InList("side-band-64k", negotiated)
       THEN \/ \* the flush ends read_pkt_seq
               /\ pc' = "eof"
               /\ UNCHANGED <<result, pack_data, progress_data, consumed>>
            \/ /\ Len(consumed) < MaxTail
               /\ \E pkt \in FetchSidebandPkts :
                    /\ consumed' = Append(consumed, pkt)
                    /\ IF UploadChannels(Head(pkt)) = "KeyError"
                       THEN /\ result' = Raised("AssertionError")
                            /\ pc' = "done"
                            /\ UNCHANGED <<pack_data, progress_data>>
                       ELSE /\ pack_data' = IF UploadChannels(Head(pkt)) = "pack_data"
                                            THEN Append(pack_data, Tail(pkt))
                                            ELSE pack_data
                            /\ progress_data' =
                                  IF UploadChannels(Head(pkt)) = "progress" /\ progress_cb
                                  THEN Append(progress_data, Tail(pkt))
                                  ELSE progress_data
                            /\ UNCHANGED <<result, pc>>
       ELSE /\ result' = Raised("AttributeError")
            /\ pc' = "done"
            /\ UNCHANGED <<pack_data, progress_data, consumed>>
    /\ UNCHANGED <<parser, rsp_log, rsp_raised, rsp_check, transport, op, thin_packs, dumb,
                   advert, refs, ref_order, server_capabilities, negotiated, written,
                   requests, progress_cb, determined, eof_data, responses, calls, new_refs,
                   have, want, generated, has_parser, wants, walker, walker_calls, acked,
                   head_reads, fetch_pkt, store_log, ix_entries, ix_file, ix_result, ix_pc,
                   ix_pos, ix_byname, ix_call, ix_gen, gf_files, gf_writers, gf_last>>

\* _handle_upload_pack_tail's wait for EOF after the sideband loop; fetch_pack then
\* returns the refs.
FetchEof ==
    /\ pc = "eof"
    /\ op = "fetch"
    /\ pc' = "done"
    /\ \E data \in {<<>>, <<"x">>} :
        /\ eof_data' = data
        /\ result' = IF data # <<>> THEN Raised("Exception") ELSE Returned(refs)
    /\ UNCHANGED <<parser, rsp_log, rsp_raised, rsp_check, transport, op, thin_packs, dumb,
                   advert, refs, ref_order, server_capabilities, negotiated, written,
                   requests, progress_cb, progress_data, consumed, determined, responses,
                   calls, new_refs, have, want, generated, has_parser, wants, walker,
                   walker_calls, acked, pack_data, head_reads, fetch_pkt, store_log,
                   ix_entries, ix_file, ix_result, ix_pc, ix_pos, ix_byname, ix_call,
                   ix_gen, gf_files, gf_writers, gf_last>>

FetchInit ==
    /\ ClientInit
    /\ op = "fetch"
    /\ CallInit
    /\ progress_cb \in BOOLEAN
    /\ RspIdle
    /\ SendIdle
    /\ wants = <<>>
    /\ walker \in Walkers
    /\ walker_calls = 0
    /\ acked = <<>>
    /\ pack_data = <<>>
    /\ head_reads = 0
    /\ fetch_pkt = Unread
    /\ store_log = <<>>
    /\ IndexIdle
    /\ GitFileIdle

NextFetch ==
    \/ Connect
    \/ Discover
    \/ FetchDetermine
    \/ FetchHead
    \/ FetchNextHave
    \/ FetchReadAck
    \/ SmartRequest
    \/ FetchTailAcks
    \/ FetchTailData
    \/ FetchEof

SpecFetch == FetchInit /\ [][NextFetch]_vars

(***************************************************************************)
(* A ReportStatusParser driven on its own.                                 *)
(***************************************************************************)
RspInit ==
    /\ RspIdle
    /\ transport = "traditional"
    /\ thin_packs = TRUE
    /\ dumb = "None"
    /\ calls = 1
    /\ op = "send"
    /\ CallInit
    /\ progress_cb = FALSE
    /\ SendIdle
    /\ FetchIdle
    /\ IndexIdle
    /\ GitFileIdle

\* A caller hands the parser the next packet: a status line or a flush.
HandlePacket ==
    /\ Len(rsp_log) < MaxPkts
    /\ \E pkt \in StatusPackets \cup {None} :
        /\ parser' = handle_packet(parser, pkt).parser
        /\ rsp_raised' = handle_packet(parser, pkt).raised
        /\ rsp_log' = Append(rsp_log, pkt)
    /\ rsp_check' = NotCalled
    /\ UNCHANGED <<transport, op, thin_packs, dumb, pc, advert, refs, ref_order,
                   server_capabilities, negotiated, written, requests, result, progress_cb,
                   progress_data, consumed, determined, eof_data, responses, calls,
                   new_refs, have, want, generated, has_parser, wants, walker,
                   walker_calls, acked, pack_data, head_reads, fetch_pkt, store_log,
                   ix_entries, ix_file, ix_result, ix_pc, ix_pos, ix_byname, ix_call,
                   ix_gen, gf_files, gf_writers, gf_last>>

\* A caller calls check(); it reads the parser and changes nothing of it.
Check ==
    /\ rsp_check = NotCalled
    /\ rsp_check' = check(parser)
    /\ UNCHANGED <<parser, rsp_log, rsp_raised, transport, op, thin_packs, dumb, pc,
                   advert, refs, ref_order, server_capabilities, negotiated, written,
                   requests, result, progress_cb, progress_data, consumed, determined,
                   eof_data, responses, calls, new_refs, have, want, generated, has_parser,
                   wants, walker, walker_calls, acked, pack_data, head_reads, fetch_pkt,
                   store_log, ix_entries, ix_file, ix_result, ix_pc, ix_pos, ix_byname,
                   ix_call, ix_gen, gf_files, gf_writers, gf_last>>

NextReportStatus == HandlePacket \/ Check

SpecReportStatus == RspInit /\ [][NextReportStatus]_vars


(***************************************************************************)
(* One HttpGitClient used for several calls: self.dumb outlives a call.    *)
(***************************************************************************)
\* The caller begins another send_pack or fetch_pack on the same client once the
\* previous call has returned or raised; only the client's own fields are kept.
NewCall ==
    /\ pc = "done"
    /\ calls < MaxCalls
    /\ calls' = calls + 1
    /\ op' \in {"send", "fetch"}
    /\ progress_cb' \in BOOLEAN
    /\ walker' \in Walkers
    /\ pc' = "start"
    /\ advert' = <<>>
    /\ refs' = NoRefs
    /\ ref_order' = <<>>
    /\ server_capabilities' = None
    /\ negotiated' = <<>>
    /\ written' = <<>>
    /\ requests' = <<>>
    /\ responses' = <<>>
    /\ result' = Running
    /\ progress_data' = <<>>
    /\ consumed' = <<>>
    /\ determined' = "not called"
    /\ eof_data' = None
    /\ parser' = NewParser
    /\ rsp_log' = <<>>
    /\ rsp_raised' = "none"
    /\ rsp_check' = NotCalled
    /\ new_refs' = NoRefs
    /\ have' = <<>>
    /\ want' = <<>>
    /\ generated' = <<>>
    /\ has_parser' = FALSE
    /\ wants' = <<>>
    /\ walker_calls' = 0
    /\ acked' = <<>>
    /\ pack_data' = <<>>
    /\ head_reads' = 0
    /\ fetch_pkt' = Unread
    /\ UNCHANGED <<transport, thin_packs, dumb, store_log, ix_entries, ix_file, ix_result,
                   ix_pc, ix_pos, ix_byname, ix_call, ix_gen, gf_files, gf_writers,
                   gf_last>>

SessionInit ==
    /\ transport = "http"
    /\ thin_packs \in BOOLEAN
    /\ dumb = "None"
    /\ calls = 1
    /\ op \in {"send", "fetch"}
    /\ CallInit
    /\ progress_cb \in BOOLEAN
    /\ RspIdle
    /\ SendIdle
    /\ wants = <<>>
    /\ walker \in Walkers
    /\ walker_calls = 0
    /\ acked = <<>>
    /\ pack_data = <<>>
    /\ head_reads = 0
    /\ fetch_pkt = Unread
    /\ store_log = <<>>
    /\ IndexIdle
    /\ GitFileIdle

\* Over HTTP can_read is `lambda: False` (client.py:734): no line is read between the haves.
NextSession ==
    \/ Discover
    \/ SmartRequest
    \/ SendDetermine
    \/ SendHead
    \/ SendGenerate
    \/ SendTail
    \/ SendTailRead
    \/ SendCheck
    \/ FetchDetermine
    \/ FetchHead
    \/ FetchNextHave
    \/ FetchTailAcks
    \/ FetchTailData
    \/ FetchEof
    \/ NewCall

SpecSession == SessionInit /\ [][NextSession]_vars

(***************************************************************************)
(* The index codec and the Index class driven on one file.                 *)
(***************************************************************************)
\* The paths of the entries: ASCII names of every length up to MaxPath, so that
\* 62 + length takes every remainder modulo 8, and two names with a character that
\* UTF-8 encodes in two bytes.
AsciiName(n) == [i \in 1..n |-> 96 + i]
Names == {AsciiName(n) : n \in 1..MaxPath} \cup {<<233>>, <<97, 233>>}

\* A content hash: 20 bytes.
ShaOf(b) == [i \in 1..20 |-> b]

\* The entries a caller holds: one per name with (secs, nsecs) times and the low 12
\* bits of flags clear, and one with an int time, large values and low flag bits.
EntryOf(name) ==
    [name |-> name, ctime |-> TupleTime(1, 2), mtime |-> TupleTime(3, 4), dev |-> 5,
     ino |-> 6, mode |-> 33188, uid |-> 7, gid |-> 8, size |-> 9, sha |-> ShaOf(17),
     flags |-> 0]
OddEntry ==
    [name |-> AsciiName(2), ctime |-> IntTime(70000), mtime |-> TupleTime(3, 999999999),
     dev |-> 16777217, ino |-> 65536, mode |-> 40960, uid |-> 1000, gid |-> 0,
     size |-> 258, sha |-> ShaOf(200), flags |-> 12293]
Entries == {EntryOf(n) : n \in Names} \cup {OddEntry}

\* The lists of entries with pairwise distinct paths a caller passes or sets.
EntryLists ==
    UNION {{l \in [1..n -> Entries] :
                \A i, j \in 1..n : i # j => l[i].name # l[j].name} : n \in 1..MaxEntries}

IndexInit ==
    /\ ix_entries \in EntryLists
    /\ ix_file = None
    /\ ix_result = NotRead
    /\ ix_pc = "start"
    /\ ix_pos = 0
    /\ ix_byname = EmptyDict
    /\ ix_call = NoCall
    /\ ix_gen = NoGen
    /\ RspIdle
    /\ transport = "traditional"
    /\ thin_packs = TRUE
    /\ dumb = "None"
    /\ calls = 1
    /\ op = "send"
    /\ CallInit
    /\ progress_cb = FALSE
    /\ SendIdle
    /\ FetchIdle
    /\ GitFileIdle

\* write_index(f, entries) on a new file.
WriteIndex ==
    /\ ix_pc = "start"
    /\ ix_file' = write_index(ix_entries)
    /\ ix_pc' = "written"
    /\ UNCHANGED <<parser, rsp_log, rsp_raised, rsp_check, transport, op, thin_packs, dumb,
                   pc, advert, refs, ref_order, server_capabilities, negotiated, written,
                   requests, result, progress_cb, progress_data, consumed, determined,
                   eof_data, responses, calls, new_refs, have, want, generated, has_parser,
                   wants, walker, walker_calls, acked, pack_data, head_reads, fetch_pkt,
                   store_log, ix_entries, ix_result, ix_pos, ix_byname, ix_call, ix_gen,
                   gf_files, gf_writers, gf_last>>

\* read_index_dict(f) on the file write_index wrote.
ReadIndexDict ==
    /\ ix_pc = "written"
    /\ ix_result' = read_index_dict(ix_file)
    /\ ix_pc' = "read"
    /\ UNCHANGED <<parser, rsp_log, rsp_raised, rsp_check, transport, op, thin_packs, dumb,
                   pc, advert, refs, ref_order, server_capabilities, negotiated, written,
                   requests, result, progress_cb, progress_data, consumed, determined,
                   eof_data, responses, calls, new_refs, have, want, generated, has_parser,
                   wants, walker, walker_calls, acked, pack_data, head_reads, fetch_pkt,
                   store_log, ix_entries, ix_file, ix_pos, ix_byname, ix_call, ix_gen,
                   gf_files, gf_writers, gf_last>>

\* Index.write() of an Index the entries were set into.
IndexWrite ==
    /\ ix_pc = "start"
    /\ ix_file' = Index_write(DictOf(EmptyDict, ix_entries))
    /\ ix_pc' = "saved"
    /\ UNCHANGED <<parser, rsp_log, rsp_raised, rsp_check, transport, op, thin_packs, dumb,
                   pc, advert, refs, ref_order, server_capabilities, negotiated, written,
                   requests, result, progress_cb, progress_data, consumed, determined,
                   eof_data, responses, calls, new_refs, have, want, generated, has_parser,
                   wants, walker, walker_calls, acked, pack_data, head_reads, fetch_pkt,
                   store_log, ix_entries, ix_result, ix_pos, ix_byname, ix_call, ix_gen,
                   gf_files, gf_writers, gf_last>>

\* One byte of the saved file changes on disk (the changes keep every 32-bit field
\* of the entries above below 2^31).
Damage ==
    /\ ix_pc = "saved"
    /\ Len(ix_entries) <= MaxDamagedEntries
    /\ \E pos \in 1..Len(ix_file), delta \in {1, 64} :
        /\ ix_file' = [ix_file EXCEPT ![pos] = (@ + delta) % 256]
        /\ ix_pos' = pos
    /\ ix_pc' = "damaged"
    /\ UNCHANGED <<parser, rsp_log, rsp_raised, rsp_check, transport, op, thin_packs, dumb,
                   pc, advert, refs, ref_order, server_capabilities, negotiated, written,
                   requests, result, progress_cb, progress_data, consumed, determined,
                   eof_data, responses, calls, new_refs, have, want, generated, has_parser,
                   wants, walker, walker_calls, acked, pack_data, head_reads, fetch_pkt,
                   store_log, ix_entries, ix_result, ix_byname, ix_call, ix_gen, gf_files,
                   gf_writers, gf_last>>

\* Index.read() of a new Index on the file.
IndexRead ==
    /\ ix_pc \in {"saved", "damaged"}
    /\ ix_result' = Index_read(ix_file, EmptyDict)
    /\ ix_pc' = "loaded"
    /\ UNCHANGED <<parser, rsp_log, rsp_raised, rsp_check, transport, op, thin_packs, dumb,
                   pc, advert, refs, ref_order, server_capabilities, negotiated, written,
                   requests, result, progress_cb, progress_data, consumed, determined,
                   eof_data, responses, calls, new_refs, have, want, generated, has_parser,
                   wants, walker, walker_calls, acked, pack_data, head_reads, fetch_pkt,
                   store_log, ix_entries, ix_file, ix_pos, ix_byname, ix_call, ix_gen,
                   gf_files, gf_writers, gf_last>>

NextIndex ==
    \/ WriteIndex
    \/ ReadIndexDict
    \/ IndexWrite
    \/ Damage
    \/ IndexRead

SpecIndex == IndexInit /\ [][NextIndex]_vars

(***************************************************************************)
(* An Index object on a path without a file: entries set, updated and      *)
(* deleted, the index written, compared with a tree and committed.         *)
(***************************************************************************)
\* The paths used: a, b, a/b, c, ...
OpNamePool == <<(<<97>>), (<<98>>), (<<97, 47, 98>>), (<<99>>)>>
OpNames == {OpNamePool[i] : i \in 1..MaxOpNames}

\* Two entries per path, of different sha and mode.
OpEntries ==
    {EntryOf(n) : n \in OpNames}
        \cup {[EntryOf(n) EXCEPT !.sha = ShaOf(34), !.mode = 33261] : n \in OpNames}

\* The dicts passed to update: one or two entries with distinct paths, in the order
\* the dict gives them.
UpdateArgs ==
    {<<e>> : e \in OpEntries}
        \cup {<<e1, e2>> : <<e1, e2>> \in {p \in OpEntries \X OpEntries : p[1].name # p[2].name}}

OpsInit ==
    /\ ix_byname = EmptyDict
    /\ ix_call = NoCall
    /\ ix_gen = NoGen
    /\ ix_pc = "open"
    /\ ix_entries = <<>>
    /\ ix_file = None
    /\ ix_result = NotRead
    /\ ix_pos = 0
    /\ RspIdle
    /\ transport = "traditional"
    /\ thin_packs = TRUE
    /\ dumb = "None"
    /\ calls = 1
    /\ op = "send"
    /\ CallInit
    /\ progress_cb = FALSE
    /\ SendIdle
    /\ FetchIdle
    /\ GitFileIdle

\* The index may be changed while a generator of changes_from_tree exists at most
\* MaxTouches times.
MayTouch == ix_gen # NoGen => ix_gen.calls < MaxTouches

\* Index.__setitem__(name, x) with a 10-tuple x of entries.
SetItem(entries) ==
    /\ ix_pc = "open"
    /\ MayTouch
    /\ \E e \in entries :
        /\ ix_byname' = DictPut(ix_byname, e)
        /\ ix_call' = [op |-> "setitem", err |-> ""]
    /\ ix_gen' = Touch(ix_gen, ix_byname, ix_byname')
    /\ ix_pc' = "open"
    /\ UNCHANGED <<parser, rsp_log, rsp_raised, rsp_check, transport, op, thin_packs, dumb,
                   pc, advert, refs, ref_order, server_capabilities, negotiated, written,
                   requests, result, progress_cb, progress_data, consumed, determined,
                   eof_data, responses, calls, new_refs, have, want, generated, has_parser,
                   wants, walker, walker_calls, acked, pack_data, head_reads, fetch_pkt,
                   store_log, ix_entries, ix_file, ix_result, ix_pos, gf_files, gf_writers,
                   gf_last>>

IndexSetItem == SetItem(OpEntries)

\* Index.__delitem__(name) for a name of names: KeyError for a path the index does
\* not hold.
DelItem(names) ==
    /\ ix_pc = "open"
    /\ MayTouch
    /\ \E name \in names :
        IF InDict(ix_byname, name)
        THEN /\ ix_byname' = DictDel(ix_byname, name)
             /\ ix_call' = [op |-> "delitem", err |-> ""]
        ELSE /\ ix_call' = [op |-> "delitem", err |-> "KeyError"]
             /\ UNCHANGED ix_byname
    /\ ix_gen' = Touch(ix_gen, ix_byname, ix_byname')
    /\ ix_pc' = "open"
    /\ UNCHANGED <<parser, rsp_log, rsp_raised, rsp_check, transport, op, thin_packs, dumb,
                   pc, advert, refs, ref_order, server_capabilities, negotiated, written,
                   requests, result, progress_cb, progress_data, consumed, determined,
                   eof_data, responses, calls, new_refs, have, want, generated, has_parser,
                   wants, walker, walker_calls, acked, pack_data, head_reads, fetch_pkt,
                   store_log, ix_entries, ix_file, ix_result, ix_pos, gf_files, gf_writers,
                   gf_last>>

IndexDelItem == DelItem(OpNames)

\* Index.update(entries)
IndexUpdate ==
    /\ ix_pc = "open"
    /\ \E entries \in UpdateArgs :
        /\ ix_byname' = DictOf(ix_byname, entries)
        /\ ix_call' = [op |-> "update", err |-> ""]
    /\ ix_pc' = "open"
    /\ UNCHANGED <<parser, rsp_log, rsp_raised, rsp_check, transport, op, thin_packs, dumb,
                   pc, advert, refs, ref_order, server_capabilities, negotiated, written,
                   requests, result, progress_cb, progress_data, consumed, determined,
                   eof_data, responses, calls, new_refs, have, want, generated, has_parser,
                   wants, walker, walker_calls, acked, pack_data, head_reads, fetch_pkt,
                   store_log, ix_entries, ix_file, ix_result, ix_pos, ix_gen, gf_files,
                   gf_writers, gf_last>>

\* Index.clear(): self._byname = {}
IndexClear ==
    /\ ix_pc = "open"
    /\ MayTouch
    /\ ix_byname' = EmptyDict
    /\ ix_call' = [op |-> "clear", err |-> ""]
    /\ ix_gen' = Touch(ix_gen, ix_byname, ix_byname')
    /\ ix_pc' = "open"
    /\ UNCHANGED <<parser, rsp_log, rsp_raised, rsp_check, transport, op, thin_packs, dumb,
                   pc, advert, refs, ref_order, server_capabilities, negotiated, written,
                   requests, result, progress_cb, progress_data, consumed, determined,
                   eof_data, responses, calls, new_refs, have, want, generated, has_parser,
                   wants, walker, walker_calls, acked, pack_data, head_reads, fetch_pkt,
                   store_log, ix_entries, ix_file, ix_result, ix_pos, gf_files, gf_writers,
                   gf_last>>

\* Index.write()
IndexSave ==
    /\ ix_pc = "open"
    /\ ix_file' = Index_write(ix_byname)
    /\ ix_call' = [op |-> "write", err |-> ""]
    /\ ix_pc' = "saved"
    /\ UNCHANGED <<parser, rsp_log, rsp_raised, rsp_check, transport, op, thin_packs, dumb,
                   pc, advert, refs, ref_order, server_capabilities, negotiated, written,
                   requests, result, progress_cb, progress_data, consumed, determined,
                   eof_data, responses, calls, new_refs, have, want, generated, has_parser,
                   wants, walker, walker_calls, acked, pack_data, head_reads, fetch_pkt,
                   store_log, ix_entries, ix_result, ix_pos, ix_byname, ix_gen, gf_files,
                   gf_writers, gf_last>>

NextOps ==
    \/ IndexSetItem
    \/ IndexDelItem
    \/ IndexUpdate
    \/ IndexClear
    \/ IndexSave

SpecOps == OpsInit /\ [][NextOps]_vars

(***************************************************************************)
(* commit_tree and cleanup_mode called on their own.                       *)
(***************************************************************************)
\* The paths of the blobs: a, a/b, a/c, d, a/b/c, ...
BlobPathPool ==
    <<(<<97>>), (<<97, 47, 98>>), (<<97, 47, 99>>), (<<100>>), (<<97, 47, 98, 47, 99>>),
      (<<100, 47, 98>>)>>
BlobPaths == {BlobPathPool[i] : i \in 1..(MaxBlobs + 2)}

\* The (path, sha, mode) triples, and the lists of them with distinct paths.
Blobs ==
    {[path |-> p, sha |-> ShaOf(17), mode |-> 33188] : p \in BlobPaths}
        \cup {[path |-> p, sha |-> ShaOf(34), mode |-> 33261] : p \in BlobPaths}
BlobLists ==
    UNION {{l \in [1..n -> Blobs] :
                \A i, j \in 1..n : i # j => l[i].path # l[j].path} : n \in 0..MaxBlobs}

\* The modes cleanup_mode is called with: every file type with some permission bits.
Modes ==
    {type + perm : type \in {32768, 40960, 16384, 57344},
                   perm \in {0, 420, 493, 448, 484, 421, 511, 384, 73}}

TreeInit ==
    /\ ix_call = NoCall
    /\ ix_gen = NoGen
    /\ ix_pc = "idle"
    /\ ix_byname = EmptyDict
    /\ ix_entries = <<>>
    /\ ix_file = None
    /\ ix_result = NotRead
    /\ ix_pos = 0
    /\ RspIdle
    /\ transport = "traditional"
    /\ thin_packs = TRUE
    /\ dumb = "None"
    /\ calls = 1
    /\ op = "send"
    /\ CallInit
    /\ progress_cb = FALSE
    /\ SendIdle
    /\ FetchIdle
    /\ GitFileIdle

\* commit_tree(object_store, blobs) on an empty object store.
CommitTree ==
    /\ ix_pc = "idle"
    /\ \E blobs \in BlobLists :
        ix_call' = [op |-> "commit_tree", blobs |-> blobs, ret |-> commit_tree(blobs)]
    /\ ix_pc' = "called"
    /\ UNCHANGED <<parser, rsp_log, rsp_raised, rsp_check, transport, op, thin_packs, dumb,
                   pc, advert, refs, ref_order, server_capabilities, negotiated, written,
                   requests, result, progress_cb, progress_data, consumed, determined,
                   eof_data, responses, calls, new_refs, have, want, generated, has_parser,
                   wants, walker, walker_calls, acked, pack_data, head_reads, fetch_pkt,
                   store_log, ix_entries, ix_file, ix_result, ix_pos, ix_byname, ix_gen,
                   gf_files, gf_writers, gf_last>>

\* cleanup_mode(mode)
CleanupMode ==
    /\ ix_pc = "idle"
    /\ \E mode \in Modes :
        ix_call' = [op |-> "cleanup_mode", mode |-> mode, ret |-> cleanup_mode(mode)]
    /\ ix_pc' = "called"
    /\ UNCHANGED <<parser, rsp_log, rsp_raised, rsp_check, transport, op, thin_packs, dumb,
                   pc, advert, refs, ref_order, server_capabilities, negotiated, written,
                   requests, result, progress_cb, progress_data, consumed, determined,
                   eof_data, responses, calls, new_refs, have, want, generated, has_parser,
                   wants, walker, walker_calls, acked, pack_data, head_reads, fetch_pkt,
                   store_log, ix_entries, ix_file, ix_result, ix_pos, ix_byname, ix_gen,
                   gf_files, gf_writers, gf_last>>

NextTree ==
    \/ CommitTree
    \/ CleanupMode

SpecTree == TreeInit /\ [][NextTree]_vars

(***************************************************************************)
(* GitFile objects opened for writing on one path (dulwich/file.py, as     *)
(* its tests in tests/test_file.py describe it).                           *)
(***************************************************************************)
\* Opening ignores a lock file that exists.
LockHeld_never(files) == FALSE

\* GitFile(path, 'wb') creates <path>.lock exclusively: the lock is held when the
\* lock file exists.
LockHeld(files) == files.lock # Absent

\* close() leaves the lock file in place after publishing.
CloseFiles_keep_lock(files) == [target |-> files.lock, lock |-> files.lock]

\* close() of an open GitFile: the lock file replaces the file at the path.
CloseFiles(files) == [target |-> files.lock, lock |-> Absent]

\* abort() of an open GitFile: the lock file is removed.
AbortFiles(files) == [files EXCEPT !.lock = Absent]

\* The chunks written.
Chunks == {"new", " contents"}

GitFileInit ==
    /\ GitFileIdle
    /\ RspIdle
    /\ transport = "traditional"
    /\ thin_packs = TRUE
    /\ dumb = "None"
    /\ calls = 1
    /\ op = "send"
    /\ CallInit
    /\ progress_cb = FALSE
    /\ SendIdle
    /\ FetchIdle
    /\ IndexIdle

\* f = GitFile(path, 'wb'): OSError(EEXIST) while the lock file exists.
GitFileOpen ==
    /\ \E w \in Writers :
        /\ gf_writers[w].state # "open"
        /\ IF LockHeld(gf_files)
           THEN /\ gf_last' = [w |-> w, op |-> "open", err |-> "EEXIST"]
                /\ UNCHANGED <<gf_files, gf_writers>>
           ELSE /\ gf_files' = [gf_files EXCEPT !.lock = <<>>]
                /\ gf_writers' = [gf_writers EXCEPT ![w] = [state |-> "open", written |-> <<>>]]
                /\ gf_last' = [w |-> w, op |-> "open", err |-> ""]
    /\ UNCHANGED <<parser, rsp_log, rsp_raised, rsp_check, transport, op, thin_packs, dumb,
                   pc, advert, refs, ref_order, server_capabilities, negotiated, written,
                   requests, result, progress_cb, progress_data, consumed, determined,
                   eof_data, responses, calls, new_refs, have, want, generated, has_parser,
                   wants, walker, walker_calls, acked, pack_data, head_reads, fetch_pkt,
                   store_log, ix_entries, ix_file, ix_result, ix_pc, ix_pos, ix_byname,
                   ix_call, ix_gen>>

\* f.write(data) on an open GitFile: the data goes to the lock file.
GitFileWrite ==
    /\ \E w \in Writers, data \in Chunks :
        /\ gf_writers[w].state = "open"
        /\ Len(gf_writers[w].written) < MaxWrites
        /\ gf_files' = [gf_files EXCEPT !.lock = Append(@, data)]
        /\ gf_writers' = [gf_writers EXCEPT ![w].written = Append(@, data)]
        /\ gf_last' = [w |-> w, op |-> "write", err |-> ""]
    /\ UNCHANGED <<parser, rsp_log, rsp_raised, rsp_check, transport, op, thin_packs, dumb,
                   pc, advert, refs, ref_order, server_capabilities, negotiated, written,
                   requests, result, progress_cb, progress_data, consumed, determined,
                   eof_data, responses, calls, new_refs, have, want, generated, has_parser,
                   wants, walker, walker_calls, acked, pack_data, head_reads, fetch_pkt,
                   store_log, ix_entries, ix_file, ix_result, ix_pc, ix_pos, ix_byname,
                   ix_call, ix_gen>>

\* f.close(): publishes; nothing on a GitFile already closed or aborted.
GitFileClose ==
    /\ \E w \in Writers :
        /\ gf_writers[w].state \in {"open", "closed"}
        /\ IF gf_writers[w].state = "open"
           THEN /\ gf_files' = CloseFiles(gf_files)
                /\ gf_writers' = [gf_writers EXCEPT ![w].state = "closed"]
           ELSE UNCHANGED <<gf_files, gf_writers>>
        /\ gf_last' = [w |-> w, op |-> "close", err |-> ""]
    /\ UNCHANGED <<parser, rsp_log, rsp_raised, rsp_check, transport, op, thin_packs, dumb,
                   pc, advert, refs, ref_order, server_capabilities, negotiated, written,
                   requests, result, progress_cb, progress_data, consumed, determined,
                   eof_data, responses, calls, new_refs, have, want, generated, has_parser,
                   wants, walker, walker_calls, acked, pack_data, head_reads, fetch_pkt,
                   store_log, ix_entries, ix_file, ix_result, ix_pc, ix_pos, ix_byname,
                   ix_call, ix_gen>>

\* f.abort(): drops what was written; nothing on a GitFile already closed or aborted.
GitFileAbort ==
    /\ \E w \in Writers :
        /\ gf_writers[w].state \in {"open", "closed"}
        /\ IF gf_writers[w].state = "open"
           THEN /\ gf_files' = AbortFiles(gf_files)
                /\ gf_writers' = [gf_writers EXCEPT ![w].state = "closed"]
           ELSE UNCHANGED <<gf_files, gf_writers>>
        /\ gf_last' = [w |-> w, op |-> "abort", err |-> ""]
    /\ UNCHANGED <<parser, rsp_log, rsp_raised, rsp_check, transport, op, thin_packs, dumb,
                   pc, advert, refs, ref_order, server_capabilities, negotiated, written,
                   requests, result, progress_cb, progress_data, consumed, determined,
                   eof_data, responses, calls, new_refs, have, want, generated, has_parser,
                   wants, walker, walker_calls, acked, pack_data, head_reads, fetch_pkt,
                   store_log, ix_entries, ix_file, ix_result, ix_pc, ix_pos, ix_byname,
                   ix_call, ix_gen>>

NextGitFile ==
    \/ GitFileOpen
    \/ GitFileWrite
    \/ GitFileClose
    \/ GitFileAbort

SpecGitFile == GitFileInit /\ [][NextGitFile]_vars

(***************************************************************************)
(* _handle_receive_pack_head on any old and new refs.                      *)
(***************************************************************************)
\* The ref names and ids the mappings are drawn over.
RefNamePool == <<"refs/heads/a", "refs/heads/b", "refs/heads/c", "refs/heads/d">>
RefNames == {RefNamePool[i] : i \in 1..MaxRefs}
RefIds == {ZERO_SHA, SHA1, SHA2}

\* The mappings from some of the ref names to ids.
RefMaps == UNION {[S -> RefIds] : S \in SUBSET RefNames}

\* send_pack at its call of _handle_receive_pack_head, with any old refs, any new
\* refs and either list of negotiated capabilities.
PushHeadInit ==
    /\ transport = "traditional"
    /\ thin_packs = TRUE
    /\ dumb = "None"
    /\ calls = 1
    /\ op = "send"
    /\ pc = "head"
    /\ advert = <<>>
    /\ refs \in RefMaps
    /\ ref_order \in Orders(DOMAIN refs)
    /\ server_capabilities = <<>>
    /\ negotiated \in {SEND_CAPABILITIES, ListRemove(SEND_CAPABILITIES, "report-status")}
    /\ written = <<>>
    /\ requests = <<>>
    /\ result = Running
    /\ progress_cb = FALSE
    /\ progress_data = <<>>
    /\ consumed = <<>>
    /\ determined = "value"
    /\ eof_data = None
    /\ responses = <<>>
    /\ new_refs \in RefMaps
    /\ have = <<>>
    /\ want = <<>>
    /\ generated = <<>>
    /\ has_parser = FALSE
    /\ RspIdle
    /\ FetchIdle
    /\ IndexIdle
    /\ GitFileIdle

NextPushHead == SendHead

SpecPushHead == PushHeadInit /\ [][NextPushHead]_vars

(***************************************************************************)
(* GitClient.fetch: fetch_pack into the object store of a repository.      *)
(***************************************************************************)
\* commit() called only when fetch_pack returned.
FinallyCalls_on_return(res, pack) ==
    IF res.kind = "returned" THEN <<"commit">> ELSE <<>>

\* The finally clause of fetch, whatever fetch_pack did: commit(), and close() on
\* the pack it returned when that is one.
FinallyCalls(res, pack) == IF pack THEN <<"commit", "close">> ELSE <<"commit">>

\* fetch before its first statement, on a client of either kind made with the
\* default thin_packs and called without a progress callback.
FetchIntoInit ==
    /\ transport \in {"traditional", "http"}
    /\ thin_packs = TRUE
    /\ dumb = "None"
    /\ calls = 1
    /\ op = "fetch"
    /\ pc = "fetch"
    /\ advert = <<>>
    /\ refs = NoRefs
    /\ ref_order = <<>>
    /\ server_capabilities = None
    /\ negotiated = <<>>
    /\ written = <<>>
    /\ requests = <<>>
    /\ result = Running
    /\ progress_cb = FALSE
    /\ progress_data = <<>>
    /\ consumed = <<>>
    /\ determined = "not called"
    /\ eof_data = None
    /\ responses = <<>>
    /\ RspIdle
    /\ SendIdle
    /\ wants = <<>>
    /\ walker \in Walkers
    /\ walker_calls = 0
    /\ acked = <<>>
    /\ pack_data = <<>>
    /\ head_reads = 0
    /\ fetch_pkt = Unread
    /\ store_log = <<>>
    /\ IndexIdle
    /\ GitFileIdle

\* f, commit = target.object_store.add_pack(); fetch_pack is called next.
FetchAddPack ==
    /\ pc = "fetch"
    /\ op = "fetch"
    /\ store_log' = Append(store_log, "add_pack")
    /\ pc' = "start"
    /\ UNCHANGED <<parser, rsp_log, rsp_raised, rsp_check, transport, op, thin_packs, dumb,
                   advert, refs, ref_order, server_capabilities, negotiated, written,
                   requests, result, progress_cb, progress_data, consumed, determined,
                   eof_data, responses, calls, new_refs, have, want, generated, has_parser,
                   wants, walker, walker_calls, acked, pack_data, head_reads, fetch_pkt,
                   ix_entries, ix_file, ix_result, ix_pc, ix_pos, ix_byname, ix_call,
                   ix_gen, gf_files, gf_writers, gf_last>>

\* The finally clause, once fetch_pack has returned or raised; fetch then returns
\* what fetch_pack returned or lets its exception through.
FetchFinally ==
    /\ pc = "done"
    /\ op = "fetch"
    /\ \E pack \in BOOLEAN : store_log' = store_log \o FinallyCalls(result, pack)
    /\ pc' = "finished"
    /\ UNCHANGED <<parser, rsp_log, rsp_raised, rsp_check, transport, op, thin_packs, dumb,
                   advert, refs, ref_order, server_capabilities, negotiated, written,
                   requests, result, progress_cb, progress_data, consumed, determined,
                   eof_data, responses, calls, new_refs, have, want, generated, has_parser,
                   wants, walker, walker_calls, acked, pack_data, head_reads, fetch_pkt,
                   ix_entries, ix_file, ix_result, ix_pc, ix_pos, ix_byname, ix_call,
                   ix_gen, gf_files, gf_writers, gf_last>>

NextFetchInto ==
    \/ FetchAddPack
    \/ NextFetch
    \/ FetchFinally

SpecFetchInto == FetchIntoInit /\ [][NextFetchInto]_vars
(***************************************************************************)
(* An Index object compared with a tree: the generator of                  *)
(* changes_from_tree, and the index changed while it is suspended.         *)
(***************************************************************************)
\* The paths of the index, a, b and c, with two entries per path, of different sha
\* and mode.
ChangeNames == {<<97>>, <<98>>, <<99>>}
ChangeEntries ==
    {EntryOf(n) : n \in ChangeNames}
        \cup {[EntryOf(n) EXCEPT !.sha = ShaOf(34), !.mode = 33261] : n \in ChangeNames}

\* The indexes compared: at most one entry per path, set in the order of the paths.
ChangeDicts ==
    {DictOf(EmptyDict, SortedByName(S)) :
        S \in {S \in SUBSET ChangeEntries : \A x, y \in S : x.name = y.name => x = y}}

\* What object_store.iter_tree_contents(tree) yields: (name, mode, sha) for at most
\* one blob per path, in ascending order of the paths.
TreeBlobs ==
    {[name |-> n, mode |-> 33188, sha |-> ShaOf(s)] : n \in {<<97>>, <<98>>}, s \in {17, 34}}
TreeArgs ==
    {SortedByName(S) : S \in {S \in SUBSET TreeBlobs :
                                 \A x, y \in S : x.name = y.name => x = y}}

\* g = Index.changes_from_tree(object_store, tree, want_unchanged): a generator
\* function, so the call runs nothing of its body.
IndexChangesFromTree ==
    /\ ix_pc = "open"
    /\ ix_gen = NoGen
    /\ \E tree \in TreeArgs, want_unchanged \in BOOLEAN :
        ix_gen' = NewGenerator(tree, want_unchanged)
    /\ ix_call' = [op |-> "changes_from_tree", err |-> ""]
    /\ UNCHANGED <<parser, rsp_log, rsp_raised, rsp_check, transport, op, thin_packs, dumb,
                   pc, advert, refs, ref_order, server_capabilities, negotiated, written,
                   requests, result, progress_cb, progress_data, consumed, determined,
                   eof_data, responses, calls, new_refs, have, want, generated, has_parser,
                   wants, walker, walker_calls, acked, pack_data, head_reads, fetch_pkt,
                   store_log, ix_entries, ix_file, ix_result, ix_pc, ix_pos, ix_byname,
                   gf_files, gf_writers, gf_last>>

\* next(g): the body runs against the index as it is now, up to its next yield, to
\* an exception or to its end; the caller stops iterating then.
GeneratorNext ==
    /\ ix_pc = "open"
    /\ ix_gen.state \in {"created", "tree", "mine"}
    /\ \E order \in Orders(Entered(ix_gen, ix_byname)) :
        ix_gen' = changes_from_tree(ix_gen, ix_byname, order)
    /\ ix_call' = [op |-> "next", err |-> ix_gen'.err]
    /\ ix_pc' = IF ix_gen'.state \in {"done", "raised"} THEN "compared" ELSE "open"
    /\ UNCHANGED <<parser, rsp_log, rsp_raised, rsp_check, transport, op, thin_packs, dumb,
                   pc, advert, refs, ref_order, server_capabilities, negotiated, written,
                   requests, result, progress_cb, progress_data, consumed, determined,
                   eof_data, responses, calls, new_refs, have, want, generated, has_parser,
                   wants, walker, walker_calls, acked, pack_data, head_reads, fetch_pkt,
                   store_log, ix_entries, ix_file, ix_result, ix_pos, ix_byname, gf_files,
                   gf_writers, gf_last>>

ChangesInit ==
    /\ ix_byname \in ChangeDicts
    /\ ix_call = NoCall
    /\ ix_gen = NoGen
    /\ ix_pc = "open"
    /\ ix_entries = <<>>
    /\ ix_file = None
    /\ ix_result = NotRead
    /\ ix_pos = 0
    /\ RspIdle
    /\ transport = "traditional"
    /\ thin_packs = TRUE
    /\ dumb = "None"
    /\ calls = 1
    /\ op = "send"
    /\ CallInit
    /\ progress_cb = FALSE
    /\ SendIdle
    /\ FetchIdle
    /\ GitFileIdle

\* The index is changed while the generator exists.
ChangesSetItem == ix_gen # NoGen /\ SetItem(ChangeEntries)
ChangesDelItem == ix_gen # NoGen /\ DelItem(ChangeNames)
ChangesClear == ix_gen # NoGen /\ IndexClear

NextChanges ==
    \/ IndexChangesFromTree
    \/ GeneratorNext
    \/ ChangesSetItem
    \/ ChangesDelItem
    \/ ChangesClear

SpecChanges == ChangesInit /\ [][NextChanges]_vars
(***************************************************************************)
(* Properties of the report-status parser.                                 *)
(***************************************************************************)
\* A flush is among the packets handled so far.
FlushHandled == \E i \in 1..Len(rsp_log) : rsp_log[i] = None

\* What a stripped status line says, read off the line itself.
IsNgLine(s) == startswith(s, W_ng \o SP)
IsOkLine(s) == startswith(s, W_ok \o SP)
LineRef(s) ==
    LET rest == split1(s)[2]
    IN  IF IsNgLine(s) /\ HasSpace(rest) THEN split1(rest)[1] ELSE rest
LineStatus(s) ==
    LET rest == split1(s)[2]
    IN  IF IsNgLine(s) /\ HasSpace(rest) THEN split1(rest)[2] ELSE split1(s)[1]

\* The positions of the well-formed lines among the recorded ref statuses.
WellFormed == {i \in 1..Len(parser.ref_statuses) : HasSpace(parser.ref_statuses[i])}
NgLines == {i \in WellFormed : IsNgLine(parser.ref_statuses[i])}

\* C1: once a flush has been handled, every later handle_packet call raises
\* GitProtocolError, whatever the packet, and leaves the recorded unpack status and
\* ref statuses as they were.
C1_AfterFlushRejected ==
    [][FlushHandled /\ rsp_log' # rsp_log =>
          /\ rsp_raised' = "GitProtocolError"
          /\ parser'.pack_status = parser.pack_status
          /\ parser'.ref_statuses = parser.ref_statuses
          /\ parser'.ref_status_ok = parser.ref_status_ok]_vars

\* C1's case: a status line and a second flush were both handled after a flush, and the
\* latest call raised.
C1_Witness ==
    /\ rsp_raised = "GitProtocolError"
    /\ \E i, j, k \in 1..Len(rsp_log) :
          i < j /\ i < k /\ rsp_log[i] = None /\ rsp_log[j] = None /\ rsp_log[k] = PKT_ng_b_bad

\* C2: when check() raises UpdateRefsError for an ok unpack status and at least
\* one ng line, the keys of the mapping it carries are exactly the refs that failed.
C2_OnlyFailedRefs ==
    (rsp_check.exc = "UpdateRefsError" /\ NgLines # {}) =>
        DOMAIN rsp_check.ref_status = {LineRef(parser.ref_statuses[i]) : i \in NgLines}

\* C3: when the first packet handled, stripped, is not `unpack ok`, check() raises
\* SendPackError carrying that stripped packet, also when ng ref statuses were received.
C3_PackRejectedFirst ==
    (rsp_check.exc # "not called" /\ rsp_log # <<>> /\ rsp_log[1] # None
        /\ strip(rsp_log[1]) # UNPACK_OK) =>
        /\ rsp_check.exc = "SendPackError"
        /\ rsp_check.msg = strip(rsp_log[1])

\* C3's case: a rejected pack followed by an ng ref status, then check().
C3_Witness ==
    /\ rsp_check.exc = "SendPackError"
    /\ rsp_check.msg = W_unpack \o SP \o W_error
    /\ NgLines # {}
    /\ FlushHandled

\* The report C4 is about: unpack ok, then status lines of which every well-formed one
\* is `ok <ref>` and at least one has no space, then a flush.
C4_Report ==
    /\ Len(rsp_log) >= 3
    /\ rsp_log[1] = PKT_unpack_ok
    /\ rsp_log[Len(rsp_log)] = None
    /\ \A i \in 2..(Len(rsp_log) - 1) :
          /\ rsp_log[i] # None
          /\ HasSpace(strip(rsp_log[i])) => IsOkLine(strip(rsp_log[i]))
    /\ \E i \in 2..(Len(rsp_log) - 1) : ~HasSpace(strip(rsp_log[i]))

\* C4: a malformed ref-status line is skipped and is not fatal: for such a report
\* check() returns without raising.
C4_MalformedNotFatal ==
    (C4_Report /\ rsp_check.exc # "not called") => rsp_check.exc = "none"


(***************************************************************************)
(* Properties of fetch_pack and send_pack.                                 *)
(***************************************************************************)
\* The ref mapping an advertisement stands for: each ref name with the id of the last
\* line naming it.
AdvertRefs(adv) ==
    [r \in {adv[i].ref : i \in 1..Len(adv)} |->
        adv[CHOOSE i \in 1..Len(adv) :
                adv[i].ref = r /\ \A j \in (i + 1)..Len(adv) : adv[j].ref # r].sha]

\* The positions of the lines of a kind among those written.
Written(kind) == {i \in 1..Len(written) : written[i][1] = kind}

\* The HTTP service POSTs made.
Posts == {i \in 1..Len(requests) : requests[i][1] = "POST"}

\* C5: when determine_wants returns an empty or None selection, fetch_pack writes no
\* want, have or done line (at most one flush), never calls next(graph_walker), never
\* calls pack_data and returns the advertised refs unchanged, on every transport.
C5_NoWantsNoExchange ==
    (op = "fetch" /\ determined # "not called" /\ (wants = None \/ wants = <<>>)) =>
        /\ written \in {<<>>, <<FLUSH>>}
        /\ walker_calls = 0
        /\ acked = <<>>
        /\ pack_data = <<>>
        /\ Posts = {}
        /\ result = Returned(AdvertRefs(advert))

\* C5's case: an empty list of wants over a connection that advertised two refs.
C5_Witness ==
    /\ op = "fetch"
    /\ determined = "value"
    /\ wants = <<>>
    /\ DOMAIN refs = {"refs/heads/a", "refs/heads/b"}
    /\ written = <<FLUSH>>
    /\ result.kind = "returned"

\* determine_wants returned a mapping equal to the advertised one.
NoChange == op = "send" /\ determined = "value" /\ new_refs = refs

\* C6 as stated: when the new refs equal the old refs, send_pack never calls the
\* pack-content generator, writes only the terminating flush, reads no status report
\* and returns the original refs.
C6_NoChangeReturnsRefs ==
    (NoChange /\ pc = "done") =>
        /\ generated = <<>>
        /\ written = <<FLUSH>>
        /\ ~has_parser /\ consumed = <<>> /\ eof_data = None
        /\ result = Returned(AdvertRefs(advert))

\* C6, amended: the same, except that an HttpGitClient whose discovery response was
\* a dumb one raises NotImplementedError before it writes anything, instead of
\* returning.
C6_NoChangeNothingSent ==
    NoChange =>
        /\ generated = <<>>
        /\ Written("update") = {} /\ Written("PACK") = {}
        /\ Posts = {}
        /\ ~has_parser /\ consumed = <<>> /\ eof_data = None
        /\ pc = "done" =>
            IF transport = "http" /\ dumb = "True"
            THEN result = Raised("NotImplementedError") /\ written = <<>>
            ELSE result = Returned(AdvertRefs(advert)) /\ written = <<FLUSH>>

\* C6's case: two advertised refs returned as they are, and the call has returned.
C6_Witness ==
    /\ NoChange
    /\ DOMAIN refs = {"refs/heads/a", "refs/heads/b"}
    /\ written = <<FLUSH>>
    /\ result = Returned(refs)

\* C7 as stated: when determine_wants returns None, no ref-update line and no pack is
\* written, the generator is not called, the only thing written is a flush and the
\* old refs are returned.
C7_AbortWritesFlush ==
    (op = "send" /\ determined = "None") =>
        /\ written = <<FLUSH>>
        /\ generated = <<>>
        /\ result = Returned(AdvertRefs(advert))

\* C7, amended: the traditional client writes exactly one flush; the HTTP client
\* writes nothing and makes no service request.
C7_AbortClean ==
    (op = "send" /\ determined = "None") =>
        /\ written = IF transport = "traditional" THEN <<FLUSH>> ELSE <<>>
        /\ Posts = {}
        /\ generated = <<>>
        /\ pc = "done"
        /\ result = Returned(AdvertRefs(advert))

\* C7's case: a traditional client's push aborted after two refs were advertised.
C7_Witness ==
    /\ op = "send"
    /\ determined = "None"
    /\ transport = "traditional"
    /\ DOMAIN refs = {"refs/heads/a", "refs/heads/b"}
    /\ written = <<FLUSH>>
    /\ result.kind = "returned"

\* C8: on every transport the capability list on the first ref-update line holds
\* report-status only if the server advertised it, and when the server did not, the
\* tail runs no report-status parser.
C8_ReportStatusOnlyIfAdvertised ==
    (op = "send" /\ server_capabilities # None) =>
        /\ \A i \in Written("update") :
              (Len(written[i]) = 5 /\ InList("report-status", written[i][5]))
                  => InList("report-status", server_capabilities)
        /\ has_parser => InList("report-status", server_capabilities)

\* C9: every capability the client sends, on the first want line or on the first
\* ref-update line, is one the server advertised, and so is every capability of the
\* negotiated list that chooses the tail's behaviour.
C9_NegotiatedIsIntersection ==
    server_capabilities # None =>
    /\ \A i \in Written("want") :
          Len(written[i]) = 3 =>
              \A k \in 1..Len(written[i][3]) :
                  InList(written[i][3][k], server_capabilities)
    /\ \A i \in Written("update") :
          Len(written[i]) = 5 =>
              \A k \in 1..Len(written[i][5]) :
                  InList(written[i][5][k], server_capabilities)
    /\ pc \in {"tail", "tail_data", "tail_read", "check", "eof"} =>
          \A k \in 1..Len(negotiated) : InList(negotiated[k], server_capabilities)

\* The payloads of the packets of one channel, in arrival order, channel byte removed.
RECURSIVE ChannelPayloads(_, _)
ChannelPayloads(pkts, c) ==
    IF pkts = <<>> THEN <<>>
    ELSE (IF Head(pkts)[1] = c THEN <<Tail(Head(pkts))>> ELSE <<>>)
            \o ChannelPayloads(Tail(pkts), c)

\* The fetch tail demultiplexes: side-band-64k is among the negotiated capabilities.
FetchSideband ==
    /\ op = "fetch"
    /\ InList("side-band-64k", negotiated)
    /\ pc \in {"tail_data", "eof", "done"}

\* C10: with side-band-64k negotiated, pack_data gets exactly the channel-1 payloads
\* in arrival order and progress exactly the channel-2 payloads, no packet goes to
\* both; the loop ends at the flush, after which nothing more is delivered; and a
\* byte read after the loop makes the fetch raise instead of returning the refs.
C10_SidebandDemux ==
    /\ [](FetchSideband =>
            /\ pack_data = ChannelPayloads(consumed, 1)
            /\ progress_data = IF progress_cb THEN ChannelPayloads(consumed, 2) ELSE <<>>
            /\ Len(pack_data) + Len(progress_data) <= Len(consumed)
            /\ eof_data # None =>
                  /\ pc = "done"
                  /\ IF eof_data = <<>> THEN result = Returned(AdvertRefs(advert))
                     ELSE result.kind = "raised"
            /\ (result.kind = "returned" /\ Written("want") # {}) => eof_data = <<>>)
    /\ [][(FetchSideband /\ pc \in {"eof", "done"}) =>
            UNCHANGED <<consumed, pack_data, progress_data>>]_vars

\* C10's case: a progress packet, then a pack packet, then the flush and EOF.
C10_Witness ==
    /\ op = "fetch"
    /\ consumed = <<<<2, "x">>, <<1, "y">>>>
    /\ progress_cb
    /\ eof_data = <<>>
    /\ result.kind = "returned"

(***************************************************************************)
(* Properties of the tail without side-band, of the sideband reader, of    *)
(* the advertisement and of the HTTP transport.                            *)
(***************************************************************************)
\* The service POST of the call was answered with status 200 and the result content
\* type, so that the tail of the call reads the response.
PostAccepted ==
    \E i \in 1..Len(responses) :
        /\ responses[i].method = "POST"
        /\ responses[i].code = HTTP_OK
        /\ responses[i].smart

\* C11: when side-band-64k is not among the negotiated capabilities, the fetch tail
\* reads the response to EOF, hands the chunks to pack_data and the fetch returns the
\* advertised refs.
C11_RawStreamReturnsRefs ==
    (/\ op = "fetch"
     /\ PostAccepted
     /\ ~InList("side-band-64k", negotiated)
     /\ pc = "done")
        => result = Returned(AdvertRefs(advert))

\* Whether the call registered a handler (None included) for a sideband channel:
\* a fetch registers 1 and 2, a push 2 and, with report-status negotiated, 1.
SideRegistered(ch) ==
    IF op = "send" THEN ch = 2 \/ (ch = 1 /\ InList("report-status", negotiated))
    ELSE ch \in {1, 2}

\* The positions of the sideband packets read whose channel has no handler.
UnknownAt == {i \in 1..Len(consumed) : ~SideRegistered(consumed[i][1])}

\* The status parser after the channel-1 payloads of pkts were parsed into it.
RECURSIVE StatusFed(_, _)
StatusFed(p, pkts) ==
    IF pkts = <<>> THEN p
    ELSE StatusFed(IF Head(pkts)[1] = 1
                   THEN PktLineParse([parser |-> p, raised |-> "none"],
                                     Tail(Head(pkts))).parser
                   ELSE p,
                   Tail(pkts))

\* The sideband packets read before the last one.
Earlier == SubSeq(consumed, 1, Len(consumed) - 1)

\* C12: a sideband packet on a channel without a registered handler makes
\* _read_side_band64k_data raise at once: it is the last packet read, no handler got
\* it, the handlers keep what the earlier packets gave them, and nothing is read or
\* delivered afterwards; a channel registered with None (progress not given) drops
\* its packets without an error.
C12_UnknownChannelAborts ==
    /\ []((InList("side-band-64k", negotiated) /\ consumed # <<>>) =>
            /\ UnknownAt # {} =>
                /\ UnknownAt = {Len(consumed)}
                /\ result = Raised("AssertionError")
                /\ pc = "done"
                /\ eof_data = None
                /\ rsp_check = NotCalled
                /\ progress_data =
                      IF progress_cb THEN ChannelPayloads(Earlier, 2) ELSE <<>>
                /\ op = "fetch" => pack_data = ChannelPayloads(Earlier, 1)
                /\ (op = "send" /\ has_parser) => parser = StatusFed(NewParser, Earlier)
            /\ UnknownAt = {} => result.exc # "AssertionError")
    /\ [][result.kind = "raised" =>
            UNCHANGED <<consumed, progress_data, pack_data, parser, written, requests>>]_vars

\* C12's case: a push without report-status whose server sends progress and then a
\* packet on channel 1.
C12_Witness ==
    /\ op = "send"
    /\ ~InList("report-status", negotiated)
    /\ progress_cb
    /\ consumed = <<<<2, "progress">>, <<1, PKT_unpack_ok>>>>
    /\ progress_data = <<<<"progress">>>>
    /\ result = Raised("AssertionError")

\* The advertisement lines whose id field is the literal ERR.
ErrLines == {i \in 1..Len(advert) : advert[i].sha = "ERR"}

\* C13: an advertisement line with ERR as its id makes _read_refs raise
\* GitProtocolError with the rest of that line as its message; determine_wants is
\* not called, no want, have or ref-update line is written, no service request is
\* made, and the refs read before the line are not returned.
C13_ErrLineRaises ==
    ErrLines # {} =>
        /\ result = RaisedMsg("GitProtocolError",
                              advert[CHOOSE i \in ErrLines : \A j \in ErrLines : i <= j].ref)
        /\ pc = "done"
        /\ determined = "not called"
        /\ written = <<>>
        /\ Posts = {}
        /\ refs = NoRefs
        /\ walker_calls = 0 /\ generated = <<>> /\ pack_data = <<>>

\* C13's case: a fetch whose server advertises one ref and then an ERR line.
C13_Witness ==
    /\ op = "fetch"
    /\ Len(advert) = 2
    /\ advert[1].ref = "refs/heads/a"
    /\ advert[2].sha = "ERR"
    /\ result.kind = "raised"
    /\ result.msg = "access denied"

\* The positions of the requests of a kind among those the call made.
Requests(kind) == {i \in 1..Len(requests) : requests[i][1] = kind}

\* C14: a call opens at most one conversation (one _connect, or over HTTP one
\* discovery GET followed by at most one service POST); an error of the status
\* report or of the final read reaches the caller; and once a call has raised, the
\* client connects, reads and writes nothing more.
C14_NoRetry ==
    /\ [](/\ Cardinality(Requests("connect")) <= 1
          /\ Cardinality(Requests("GET")) <= 1
          /\ Cardinality(Requests("POST")) <= 1
          /\ Len(requests) <= 2
          /\ transport = "traditional" => Requests("GET") \cup Requests("POST") = {}
          /\ transport = "http" => Requests("connect") = {}
          /\ Requests("POST") # {} => requests[1][1] = "GET"
          /\ rsp_check.exc \notin {"none", "not called"} => result = Raised(rsp_check.exc)
          /\ eof_data \notin {None, <<>>} => result.kind = "raised")
    /\ [][result.kind = "raised" => UNCHANGED vars]_vars

\* C14's case: a push over one connection whose status report made check() raise.
C14_Witness ==
    /\ op = "send"
    /\ transport = "traditional"
    /\ requests = <<<<"connect", "git-receive-pack">>>>
    /\ rsp_check.exc = "UpdateRefsError"
    /\ result = Raised("UpdateRefsError")

MarkerRefused ==
    /\ result = Raised("GitProtocolError")
    /\ pc = "done"
    /\ advert = <<>> /\ refs = NoRefs /\ server_capabilities = None
    /\ determined = "not called"
    /\ Len(responses) = 1

\* C16: a discovery response with status 200 and a smart content type is refused
\* with GitProtocolError, before any ref is parsed, unless its first packet sequence
\* is exactly the line `# service=<service>\n`; a response with another content type
\* (dumb mode) is not tested for the marker.
C16_SmartMarker ==
    (/\ responses # <<>>
     /\ responses[1].method = "GET"
     /\ responses[1].code = HTTP_OK) =>
        IF responses[1].smart
        THEN /\ dumb = "False"
             /\ MarkerRefused <=>
                   responses[1].pkts # <<<<"# service=", Service, "\n">>>>
        ELSE /\ dumb = "True"
             /\ ~MarkerRefused

\* C16's case: a smart response whose first sequence holds the marker and a second
\* line.
C16_Witness ==
    /\ op = "fetch"
    /\ Len(responses) = 1
    /\ responses[1].smart
    /\ responses[1].code = HTTP_OK
    /\ Len(responses[1].pkts) = 2
    /\ responses[1].pkts[1] = <<"# service=", "git-upload-pack", "\n">>
    /\ result = Raised("GitProtocolError")

\* C17: every discovery request of an HttpGitClient created with dumb=None asks for
\* info/refs?service=<service>, in its first call and in every later one.
C17_DiscoveryNamesService ==
    \A i \in Requests("GET") :
        requests[i] = <<"GET", "info/refs?service=", Service>>

(***************************************************************************)
(* The index codec (C18 to C20).                                           *)
(***************************************************************************)
\* An entry whose times are (secs, nsecs) pairs and whose flags have the low 12 bits
\* clear: one whose fields the format can hold as they are.
Canonical(e) == e.ctime.type = "tuple" /\ e.mtime.type = "tuple" /\ e.flags % 4096 = 0

\* The paths of a list of entries.
PathsOf(entries) == {entries[i].name : i \in 1..Len(entries)}

\* C18: write_index followed by read_index_dict on the written bytes returns a
\* mapping with exactly the paths written, in which every field of every entry
\* equals the one written.
C18_RoundTrip ==
    (ix_pc = "read" /\ \A i \in 1..Len(ix_entries) : Canonical(ix_entries[i])) =>
        /\ ix_result.err = ""
        /\ {ix_result.dict.keys[i] : i \in 1..Len(ix_result.dict.keys)} = PathsOf(ix_entries)
        /\ \A i \in 1..Len(ix_entries) :
            \E j \in 1..Len(ix_result.dict.byname) : ix_result.dict.byname[j] = ix_entries[i]

\* The number of bytes of the path of an entry as written.
PathBytes(e) == Len(encode_utf8(e.name))

\* The smallest multiple of 8 that is at least n, and the smallest one above n.
Ceil8(n) == ((n + 7) \div 8) * 8
Next8(n) == ((n \div 8) + 1) * 8

\* The sum of the first n numbers of a sequence.
RECURSIVE SumTo(_, _)
SumTo(lens, n) == IF n = 0 THEN 0 ELSE SumTo(lens, n - 1) + lens[n]

\* The written file is the 12 bytes of the header followed by one record per entry,
\* record i taking lens[i] bytes: the 62 fixed bytes, the path, then NUL bytes only.
LaidOut(lens) ==
    /\ Len(ix_file) = 12 + SumTo(lens, Len(lens))
    /\ \A i \in 1..Len(ix_entries) :
        LET start == 12 + SumTo(lens, i - 1)
            n == PathBytes(ix_entries[i])
        IN  /\ lens[i] >= HeaderSize + n
            /\ SubSeq(ix_file, start + HeaderSize + 1, start + HeaderSize + n)
                  = encode_utf8(ix_entries[i].name)
            /\ \A k \in (start + HeaderSize + n + 1)..(start + lens[i]) :
                  k <= Len(ix_file) /\ ix_file[k] = 0

\* C19 as stated: each record is padded with NUL bytes to the smallest multiple of 8
\* that is at least 62 + path length, so a record with (62 + path length) mod 8 = 0
\* gets no padding and every other record 1 to 7 bytes.
C19_PadToAtLeast ==
    ix_pc = "written" =>
        LaidOut([i \in 1..Len(ix_entries) |-> Ceil8(HeaderSize + PathBytes(ix_entries[i]))])

\* C19 amended: each record is padded with NUL bytes to the smallest multiple of 8
\* above 62 + path length, so a record with (62 + path length) mod 8 = 0 gets 8
\* bytes of padding and every other record 1 to 7 bytes.
C19_PadBeyond ==
    ix_pc = "written" =>
        LaidOut([i \in 1..Len(ix_entries) |-> Next8(HeaderSize + PathBytes(ix_entries[i]))])

\* Two records were written, the first with (62 + path length) mod 8 = 0, followed in
\* the file by 8 NUL bytes and then by the second record.
C19_Witness ==
    /\ ix_pc = "written"
    /\ Len(ix_entries) = 2
    /\ (HeaderSize + PathBytes(ix_entries[1])) % 8 = 0
    /\ (HeaderSize + PathBytes(ix_entries[2])) % 8 = 3
    /\ Len(ix_file) = 12 + (HeaderSize + PathBytes(ix_entries[1]) + 8)
                         + (HeaderSize + PathBytes(ix_entries[2]) + 5)

\* C20: after one byte of a file produced by Index.write() changed, Index.read()
\* fails with an error.
C20_DamageDetected ==
    (ix_pc = "loaded" /\ ix_pos # 0) => ix_result.err # ""

\* One padding byte of the record of a saved index changed and Index.read(), having
\* read the record, failed on the checksum.
C20_Witness ==
    /\ ix_pc = "loaded"
    /\ Len(ix_entries) = 1
    /\ ix_pos > 12 + HeaderSize + PathBytes(ix_entries[1])
    /\ ix_pos <= Len(ix_file) - 20
    /\ ix_result.err = "ChecksumMismatch"
    /\ Len(ix_result.dict.keys) = 1

(***************************************************************************)
(* The index header, the Index class, trees and modes (C21 to C26).        *)
(***************************************************************************)
\* C21: read_index fails without yielding an entry when the first 4 bytes are not
\* DIRC or the version is neither 1 nor 2; write_index emits DIRC, version 2 and the
\* number of the records it then writes, so what it writes passes both checks.
C21_HeaderChecked ==
    /\ (ix_pc = "loaded" /\ (SubSeq(ix_file, 1, 4) # DIRC
                              \/ FromU32(SubSeq(ix_file, 5, 8)) \notin {1, 2})) =>
            /\ ix_result.err = "AssertionError"
            /\ ix_result.dict = EmptyDict
    /\ ix_pc = "written" =>
            /\ SubSeq(ix_file, 1, 12) = <<68, 73, 82, 67, 0, 0, 0, 2, 0, 0, 0, Len(ix_entries)>>
            /\ LaidOut([i \in 1..Len(ix_entries) |->
                            Next8(HeaderSize + PathBytes(ix_entries[i]))])
            /\ read_index(ix_file).err # "AssertionError"

\* A file whose version field was changed to 66 was read and refused.
C21_Witness ==
    /\ ix_pc = "loaded"
    /\ SubSeq(ix_file, 1, 8) = <<68, 73, 82, 67, 0, 0, 0, 66>>
    /\ ix_result = [err |-> "AssertionError", dict |-> EmptyDict]

\* The path-to-entry mapping an Index holds.
Mapping(d) == {d.byname[i] : i \in 1..Len(d.byname)}

\* The paths of the records of a file, in the order of the records.
RecordPaths(data) == read_index(data).dict.keys

\* C22: an Index that holds the same mapping as the one written, whatever the order
\* in which its entries were set, writes the same bytes; the file has version 2 and
\* its records are in ascending order of their paths.
C22_WriteDeterministic ==
    ix_pc = "saved" =>
        /\ \A o \in Orders(Mapping(ix_byname)) :
              Index_write(DictOf(EmptyDict, o)) = ix_file
        /\ SubSeq(ix_file, 5, 8) = <<0, 0, 0, 2>>
        /\ Len(RecordPaths(ix_file)) = Len(ix_byname.keys)
        /\ \A i \in 1..(Len(RecordPaths(ix_file)) - 1) :
              NameLess(RecordPaths(ix_file)[i], RecordPaths(ix_file)[i + 1])

\* An Index was written that holds three entries in descending order of their paths.
C22_Witness ==
    /\ ix_pc = "saved"
    /\ Len(ix_byname.keys) = 3
    /\ NameLess(ix_byname.keys[3], ix_byname.keys[2])
    /\ NameLess(ix_byname.keys[2], ix_byname.keys[1])

\* The path a yielded tuple is about.
PathOf(y) == IF y.paths[1].some THEN y.paths[1].v ELSE y.paths[2].v

\* The tuples yielded by changes_from_tree for the path n.
YieldedFor(n) ==
    {i \in 1..Len(ix_gen.yielded) : PathOf(ix_gen.yielded[i]) = n}

\* The entry of the tree for the path n, as a set: empty when the tree has none.
InTree(n) == {ix_gen.tree[i] : i \in {i \in 1..Len(ix_gen.tree) : ix_gen.tree[i].name = n}}

\* What changes_from_tree yielded is what the tree and the index call for, path by
\* path.
ChangesAsExpected ==
    /\ \A i \in 1..Len(ix_gen.yielded) :
          PathOf(ix_gen.yielded[i]) \in Keys(ix_byname) \cup PathsOf(ix_gen.tree)
    /\ \A n \in Keys(ix_byname) \cup PathsOf(ix_gen.tree) :
          /\ Cardinality(YieldedFor(n)) <= 1
          /\ \A t \in InTree(n) :
                IF n \in Keys(ix_byname)
                THEN LET mine == GetItem(ix_byname, n) IN
                     /\ (YieldedFor(n) # {}) <=>
                            (ix_gen.want_unchanged \/ mine.sha # t.sha \/ mine.mode # t.mode)
                     /\ \A i \in YieldedFor(n) :
                            /\ ix_gen.yielded[i].paths = <<Some(n), Some(n)>>
                            /\ ix_gen.yielded[i].modes = <<Some(t.mode), Some(mine.mode)>>
                            /\ ix_gen.yielded[i].shas = <<Some(t.sha), Some(mine.sha)>>
                ELSE /\ YieldedFor(n) # {}
                     /\ \A i \in YieldedFor(n) :
                            /\ ix_gen.yielded[i].paths = <<Some(n), Nothing>>
                            /\ ix_gen.yielded[i].modes = <<Some(t.mode), Nothing>>
                            /\ ix_gen.yielded[i].shas = <<Some(t.sha), Nothing>>
          /\ (InTree(n) = {}) =>
                /\ YieldedFor(n) # {}
                /\ \A i \in YieldedFor(n) :
                      /\ ix_gen.yielded[i].paths = <<Nothing, Some(n)>>
                      /\ ix_gen.yielded[i].modes = <<Nothing, Some(GetItem(ix_byname, n).mode)>>
                      /\ ix_gen.yielded[i].shas = <<Nothing, Some(GetItem(ix_byname, n).sha)>>

\* The generator was iterated to its end, and the index was not changed between its
\* first next() and its last.
Iterated == ix_gen.state = "done" /\ ~ix_gen.touched

\* C23: changes_from_tree, iterated to its end on an index that is not changed
\* meanwhile, yields at most one tuple per path of the tree or the index: a change
\* tuple (old the tree side, new the index side) for a path in both exactly when sha
\* or mode differs or want_unchanged is set, a removed tuple for a path only in the
\* tree, an added tuple for a path only in the index, nothing else; and neither the
\* call nor a next() changes the index.
C23_ChangesFromTree ==
    /\ [](Iterated => ChangesAsExpected)
    /\ [][ix_call'.op \in {"changes_from_tree", "next"} => ix_byname' = ix_byname]_vars

\* With want_unchanged false, an index of two entries was compared with a tree of
\* two: one path with the same sha and another mode, one path only in the tree, one
\* only in the index.
C23_Witness ==
    /\ Iterated
    /\ ~ix_gen.want_unchanged
    /\ Len(ix_gen.yielded) = 3
    /\ \E i \in 1..3 : /\ ix_gen.yielded[i].paths[1] = ix_gen.yielded[i].paths[2]
                        /\ ix_gen.yielded[i].shas[1] = ix_gen.yielded[i].shas[2]
                        /\ ix_gen.yielded[i].modes[1] # ix_gen.yielded[i].modes[2]
    /\ \E i \in 1..3 : ~ix_gen.yielded[i].paths[1].some
    /\ \E i \in 1..3 : ~ix_gen.yielded[i].paths[2].some
    /\ Len(ix_gen.tree) = 2
    /\ Len(ix_byname.keys) = 2

\* The lists that hold the elements of blobs, each once, in some order.
Reorderings(blobs) == Orders({blobs[i] : i \in 1..Len(blobs)})

\* p names a directory above q: q starts with p followed by a slash.
DirPrefix(p, q) == Len(q) > Len(p) /\ SubSeq(q, 1, Len(p) + 1) = p \o <<47>>

\* No path of the blobs is a directory above another.
NoDirConflict(blobs) ==
    \A i, j \in 1..Len(blobs) : ~DirPrefix(blobs[i].path, blobs[j].path)

\* C24 as stated: every permutation of triples with pairwise distinct paths gives
\* the same root tree hash and the same set of persisted trees.
C24_AnyOrder ==
    ix_call.op = "commit_tree" =>
        \A o \in Reorderings(ix_call.blobs) :
            /\ commit_tree(o).id = ix_call.ret.id
            /\ commit_tree(o).store = ix_call.ret.store

\* C24 amended: every permutation of triples with pairwise distinct paths, none of
\* them a directory above another, gives the same root tree hash and the same set of
\* persisted trees.
C24_AnyOrderNoConflict ==
    (ix_call.op = "commit_tree" /\ NoDirConflict(ix_call.blobs)) =>
        \A o \in Reorderings(ix_call.blobs) :
            /\ commit_tree(o).id = ix_call.ret.id
            /\ commit_tree(o).store = ix_call.ret.store

\* Three blobs in two directories, one below the other, were committed: three trees
\* were stored.
C24_Witness ==
    /\ ix_call.op = "commit_tree"
    /\ NoDirConflict(ix_call.blobs)
    /\ Len(ix_call.blobs) = 3
    /\ Cardinality(ix_call.ret.store) = 3

\* The (path, mode, sha) of the blobs reachable from a tree at the directory prefix.
RECURSIVE LeavesOf(_, _)
LeavesOf(id, prefix) ==
    UNION {IF "tree" \in DOMAIN e.sha
           THEN LeavesOf(e.sha, pathjoin(prefix, e.name))
           ELSE {[path |-> pathjoin(prefix, e.name), mode |-> e.mode, sha |-> e.sha.blob]}
           : e \in id.tree}

\* The trees reachable from a tree, itself included, each with its directory.
RECURSIVE TreesOf(_, _)
TreesOf(id, prefix) ==
    {[dir |-> prefix, id |-> id]}
        \cup UNION {TreesOf(e.sha, pathjoin(prefix, e.name))
                     : e \in {e \in id.tree : "tree" \in DOMAIN e.sha}}

\* The names of the immediate children of the directory dir among the paths.
Children(dir, paths) ==
    {pathsplit(SubSeq(p, 1, n))[2] :
        <<p, n>> \in {pn \in paths \X (1..5) :
                         /\ pn[2] <= Len(pn[1])
                         /\ (pn[2] = Len(pn[1]) \/ pn[1][pn[2] + 1] = 47)
                         /\ pathsplit(SubSeq(pn[1], 1, pn[2]))[1] = dir}}

\* The trees commit_tree stored and returned mirror the blobs: the stored trees are
\* those reachable from the root, each has one entry per immediate child of its
\* directory, sub-directories have the directory mode, and the blobs reachable are
\* the triples given, at their paths with their modes and shas.
Faithful(blobs, ret) ==
    LET paths == {blobs[i].path : i \in 1..Len(blobs)}
        trees == TreesOf(ret.id, <<>>)
    IN  /\ ret.store = {t.id : t \in trees}
        /\ LeavesOf(ret.id, <<>>) =
              {[path |-> blobs[i].path, mode |-> blobs[i].mode, sha |-> blobs[i].sha]
                  : i \in 1..Len(blobs)}
        /\ \A t \in trees :
              /\ {e.name : e \in t.id.tree} = Children(t.dir, paths)
              /\ Cardinality(t.id.tree) = Cardinality(Children(t.dir, paths))
              /\ \A e \in t.id.tree : "tree" \in DOMAIN e.sha => e.mode = 16384

\* C25 as stated: commit_tree builds a faithful hierarchy for the triples it is given.
C25_Faithful ==
    ix_call.op = "commit_tree" => Faithful(ix_call.blobs, ix_call.ret)

\* C25 amended: commit_tree builds a faithful hierarchy for triples with pairwise
\* distinct paths none of which is a directory above another.
C25_FaithfulNoConflict ==
    (ix_call.op = "commit_tree" /\ NoDirConflict(ix_call.blobs)) =>
        Faithful(ix_call.blobs, ix_call.ret)

\* [(a/b, H1, 100644), (a/c, H2, 100755)] was committed: the root has the single
\* directory entry a, whose tree has b and c.
C25_Witness ==
    /\ ix_call.op = "commit_tree"
    /\ ix_call.blobs = <<[path |-> <<97, 47, 98>>, sha |-> ShaOf(17), mode |-> 33188],
                         [path |-> <<97, 47, 99>>, sha |-> ShaOf(34), mode |-> 33261]>>
    /\ ix_call.ret.id =
          [tree |-> {[name |-> <<97>>, mode |-> 16384,
                      sha |-> [tree |-> {[name |-> <<98>>, mode |-> 33188,
                                          sha |-> BlobId(ShaOf(17))],
                                         [name |-> <<99>>, mode |-> 33261,
                                          sha |-> BlobId(ShaOf(34))]}]]}]
    /\ Cardinality(ix_call.ret.store) = 2

\* C26: cleanup_mode gives the symlink mode for a symlink, the directory mode for a
\* directory, the gitlink mode for a submodule, and for any other mode 0100644 when
\* no execute bit is set and 0100755 when one is; applied to its result it gives the
\* same value.
C26_CanonicalModes ==
    ix_call.op = "cleanup_mode" =>
        /\ ix_call.ret =
              (IF S_IFMT(ix_call.mode) = 40960 THEN 40960
               ELSE IF S_IFMT(ix_call.mode) = 16384 THEN 16384
               ELSE IF S_IFMT(ix_call.mode) = 57344 THEN 57344
               ELSE IF ExecBits(ix_call.mode) = 0 THEN 33188 ELSE 33261)
        /\ cleanup_mode(ix_call.ret) = ix_call.ret

(***************************************************************************)
(* GitFile (C27 and C28).                                                  *)
(***************************************************************************)
\* The GitFile objects that are open for writing.
OpenWriters == {w \in Writers : gf_writers[w].state = "open"}


\* C27: while a GitFile opened for writing on the path is neither closed nor aborted,
\* another attempt to open the path for writing fails with EEXIST and leaves the
\* first writer alone: what that writer writes and then closes is exactly what the
\* file at the path holds afterwards.
C27_WriteLock ==
    /\ [](Cardinality(OpenWriters) <= 1)
    /\ [][(gf_last'.op = "open" /\ OpenWriters # {}) =>
              /\ gf_last'.err = "EEXIST"
              /\ gf_files' = gf_files
              /\ gf_writers' = gf_writers]_vars
    /\ [][(gf_last'.op = "close" /\ gf_last'.w \in OpenWriters) =>
              gf_files'.target = gf_writers[gf_last'.w].written]_vars

\* The first writer has written and is open, and the second has just failed to open
\* the path.
C27_Witness ==
    /\ gf_last = [w |-> 2, op |-> "open", err |-> "EEXIST"]
    /\ gf_writers[1] = [state |-> "open", written |-> <<"new">>]
    /\ gf_writers[2].state = "none"
    /\ gf_files = [target |-> OldContents, lock |-> <<"new">>]

\* C28: from the opening of the path for writing until close() the file keeps its
\* old contents and the lock file exists; close() replaces the file by what was
\* written and removes the lock file; abort() removes the lock file and leaves the
\* file as it was; close() or abort() of a GitFile already closed or aborted raises
\* nothing and changes neither.
C28_WriteAtomic ==
    /\ [](OpenWriters # {} => gf_files.lock # Absent)
    /\ [][gf_last'.op \in {"open", "write"} => gf_files'.target = gf_files.target]_vars
    /\ [][(gf_last'.op = "close" /\ gf_last'.w \in OpenWriters) =>
              /\ gf_files' = [target |-> gf_writers[gf_last'.w].written, lock |-> Absent]
              /\ gf_last'.err = ""]_vars
    /\ [][(gf_last'.op = "abort" /\ gf_last'.w \in OpenWriters) =>
              /\ gf_files' = [target |-> gf_files.target, lock |-> Absent]
              /\ gf_last'.err = ""]_vars
    /\ [][(gf_last'.op \in {"close", "abort"} /\ gf_last'.w \notin OpenWriters) =>
              /\ gf_files' = gf_files
              /\ gf_last'.err = ""]_vars

\* A GitFile that had written was aborted and then closed: the file has its old
\* contents and there is no lock file.
C28_Witness ==
    /\ gf_last = [w |-> 1, op |-> "close", err |-> ""]
    /\ gf_writers[1] = [state |-> "closed", written |-> <<"new">>]
    /\ gf_writers[2].state = "none"
    /\ gf_files = [target |-> OldContents, lock |-> Absent]

(***************************************************************************)
(* The head phase of a fetch (C29 and C30).                                *)
(***************************************************************************)
\* The have lines written, as the ids they carry.
HavesWritten ==
    LET at == {i \in 1..Len(written) : written[i][1] = "have"}
        nth(k) == CHOOSE i \in at : Cardinality({j \in at : j < i}) = k - 1
    IN  [k \in 1..Cardinality(at) |-> written[nth(k)][2]]

\* _handle_upload_pack_head has written its first line.
HeadStarted == written # <<>> /\ written[1][1] = "want"

\* What was written is a start of: the want lines, the first with the capabilities,
\* a flush, have lines in the order of the graph walker, and done.
HeadOrder ==
    /\ Len(written) > Len(wants)
    /\ written[1] = <<"want", wants[1], negotiated>>
    /\ \A i \in 2..Len(wants) : written[i] = <<"want", wants[i]>>
    /\ written[Len(wants) + 1] = FLUSH
    /\ \A i \in (Len(wants) + 2)..Len(written) :
          \/ written[i][1] = "have"
          \/ written[i] = <<"done">> /\ i = Len(written)
    /\ HavesWritten \o walker \in Walkers

\* The head phase is under way.
InHead == pc \in {"next_have", "read_ack"}

\* C29: _handle_upload_pack_head writes one want line per selected id, the first
\* with the capability list, one flush, the have lines in the order of the graph
\* walker and one done; nothing after done; done is written when the head ends
\* without an exception, the walker being exhausted or ready received.
C29_HeadWriteOrder ==
    /\ [](HeadStarted => HeadOrder)
    /\ [][(InHead /\ ~InHead' /\ result'.kind # "raised") =>
              written' = Append(written, <<"done">>)]_vars
    /\ [][(HeadStarted /\ ~InHead) => written' = written]_vars

\* Two wants and two haves were written, ready was read after the second, and done
\* followed.
C29_Witness ==
    /\ Len(wants) = 2
    /\ Len(written) = 6
    /\ written[4][1] = "have"
    /\ written[5][1] = "have"
    /\ written[6] = <<"done">>
    /\ head_reads > 0
    /\ acked # <<>>
    /\ pc = "tail"

\* C30: the head reads only directly after writing a have line, one line at a time;
\* when it has read nothing, as over HTTP where can_read() is always false, it has
\* sent a have for every id of the walker before done.
C30_OpportunisticAck ==
    /\ [](pc = "read_ack" => written[Len(written)][1] = "have")
    /\ [](head_reads <= Len(HavesWritten))
    /\ [][head_reads' # head_reads =>
              /\ head_reads' = head_reads + 1
              /\ pc = "read_ack"
              /\ pc' # "read_ack"
              /\ written' = written \/ written' = Append(written, <<"done">>)]_vars
    /\ [](transport = "http" => head_reads = 0)
    /\ []((HeadStarted /\ ~InHead /\ head_reads = 0) =>
              /\ walker = <<>>
              /\ written[Len(written)] = <<"done">>
              /\ HavesWritten \in Walkers)

\* Over HTTP two haves were written without a read in between, then done.
C30_Witness ==
    /\ transport = "http"
    /\ pc = "post"
    /\ Len(HavesWritten) = 2
    /\ head_reads = 0
    /\ written[Len(written)] = <<"done">>

(***************************************************************************)
(* The ACK lines of a fetch (C31 and C32).                                 *)
(***************************************************************************)
\* The space-separated parts of the line read last, its trailing newlines dropped.
PktParts(p) == split(rstrip_nl(p))

\* The line is `ACK <id> <status>`.
IsAckWithStatus(p) == p # None /\ PktParts(p)[1] = <<"ACK">> /\ Len(PktParts(p)) >= 3

\* C31: when the fetch head reads `ACK <id> <status>` after a have, it calls
\* graph_walker.ack(id); on continue or common it writes nothing and asks the walker
\* for the next have; on ready it writes done and leaves the have loop; on any other
\* status the call raises, and nothing is written then or later.
C31_HeadAckStatus ==
    /\ [][(head_reads' # head_reads /\ IsAckWithStatus(fetch_pkt')) =>
            LET id == PktParts(fetch_pkt')[2]
                status == PktParts(fetch_pkt')[3]
            IN  /\ acked' = Append(acked, id)
                /\ status \in {<<"continue">>, <<"common">>} =>
                      /\ pc' = "next_have"
                      /\ written' = written
                      /\ result' = Running
                /\ status = <<"ready">> =>
                      /\ pc' = AfterHaves
                      /\ written' = Append(written, <<"done">>)
                      /\ result' = Running
                /\ status \notin {<<"continue">>, <<"common">>, <<"ready">>} =>
                      /\ result' = Raised("AssertionError")
                      /\ pc' = "done"
                      /\ written' = written]_vars
    /\ [][pc = "next_have" => walker_calls' = walker_calls + 1]_vars
    /\ [][pc = "done" => written' = written]_vars

\* A have was answered with an ACK of an unknown status: ack was called, the fetch
\* raised, and the have is the last line written.
C31_Witness ==
    /\ fetch_pkt = Ack(SHA2, "bogus")
    /\ head_reads = 2
    /\ acked = <<<<SHA2>>, <<SHA2>>>>
    /\ result = Raised("AssertionError")
    /\ pc = "done"
    /\ written[Len(written)][1] = "have"

\* The line has a status, and it is one of ready, continue and common.
HasContinuingStatus(p) ==
    /\ p # None
    /\ Len(PktParts(p)) >= 3
    /\ PktParts(p)[3] \in {<<"ready">>, <<"continue">>, <<"common">>}

\* The line is `ACK <id>` without a status.
IsAckWithoutStatus(p) == p # None /\ PktParts(p)[1] = <<"ACK">> /\ Len(PktParts(p)) = 2

\* Pack data is read only once the ACK loop has ended.
PackAfterAcks ==
    [][(consumed' # consumed \/ pack_data' # pack_data) => pc = "tail_data"]_vars

\* C32 as stated: after done the fetch tail keeps reading while the line read is
\* `ACK <id>` with no status or with ready, continue or common, calling
\* graph_walker.ack(id) for each such line; it stops at any other line and at a
\* flush; the pack is read only after that.
C32_TailAckLoop ==
    /\ [][pc = "tail" =>
            IF IsAckWithoutStatus(fetch_pkt')
               \/ (HasContinuingStatus(fetch_pkt') /\ IsAckWithStatus(fetch_pkt'))
            THEN pc' = "tail" /\ acked' = Append(acked, PktParts(fetch_pkt')[2])
            ELSE pc' = "tail_data"]_vars
    /\ PackAfterAcks

\* C32 amended: after done the fetch tail keeps reading while the line read has a
\* status that is one of ready, continue and common, calling graph_walker.ack(id)
\* for each such `ACK <id> <status>` line; it stops at the first line with another
\* status or with none, and at a flush; the pack is read only after that.
C32_TailAckLoopStatus ==
    /\ [][pc = "tail" =>
            /\ IF HasContinuingStatus(fetch_pkt') THEN pc' = "tail" ELSE pc' = "tail_data"
            /\ (HasContinuingStatus(fetch_pkt') /\ IsAckWithStatus(fetch_pkt')) =>
                  acked' = Append(acked, PktParts(fetch_pkt')[2])
            /\ fetch_pkt' = None => acked' = acked]_vars
    /\ PackAfterAcks

\* After done an ACK with a status was read and acknowledged, then an ACK without
\* one, which ended the loop; a pack packet has been read since.
C32_Witness ==
    /\ head_reads = 0
    /\ Len(acked) = 2
    /\ acked[1] = <<SHA2>>
    /\ IsAckWithoutStatus(fetch_pkt)
    /\ pc = "tail_data"
    /\ pack_data # <<>>

(***************************************************************************)
(* The head of a push (C33 and C34).                                       *)
(***************************************************************************)
\* _handle_receive_pack_head has returned: its flush, at least, is written.
HeadDone == op = "send" /\ determined = "value" /\ written # <<>>

\* The ref names of either side, and those whose ids differ.
AllRefNames == (DOMAIN refs) \cup (DOMAIN new_refs)
Differing == {r \in AllRefNames : Get(refs, r) # Get(new_refs, r)}

\* The ids of a list.
IdsOf(l) == {l[i] : i \in 1..Len(l)}

\* C33: the push head writes one `<old-id> <new-id> <ref-name>` line for each ref
\* name of the old or new refs whose ids differ (an id missing on a side being the
\* zero id) and none for a ref whose ids are equal; the capabilities are on the first
\* line written and on no other; one flush follows, and it is the last thing written.
C33_PushHeadLines ==
    HeadDone =>
        /\ Len(written) = Cardinality(Differing) + 1
        /\ written[Len(written)] = FLUSH
        /\ \A i \in 1..(Len(written) - 1) :
              /\ written[i][1] = "update"
              /\ written[i][4] \in Differing
              /\ written[i][2] = Get(refs, written[i][4])
              /\ written[i][3] = Get(new_refs, written[i][4])
              /\ IF i = 1
                 THEN Len(written[i]) = 5 /\ written[i][5] = negotiated
                 ELSE Len(written[i]) = 4
        /\ \A r \in Differing :
              Cardinality({i \in 1..(Len(written) - 1) : written[i][4] = r}) = 1

\* Two refs changed and one did not: two lines were written, the second ref's first
\* and with the capabilities, then the flush.
C33_Witness ==
    /\ HeadDone
    /\ refs = ("refs/heads/a" :> SHA1 @@ "refs/heads/b" :> SHA2)
    /\ new_refs = ("refs/heads/a" :> SHA2)
    /\ Len(written) = 3
    /\ written[1] = <<"update", SHA2, ZERO_SHA, "refs/heads/b", negotiated>>
    /\ written[2] = <<"update", SHA1, SHA2, "refs/heads/a">>
    /\ written[3] = FLUSH

\* C34: have holds exactly the old ref ids that are not the zero id, want exactly the
\* new ref ids that are neither the zero id nor in have; the two are disjoint and
\* neither holds the zero id.
C34_PushHaveWant ==
    HeadDone =>
        /\ IdsOf(have) = {refs[r] : r \in DOMAIN refs} \ {ZERO_SHA}
        /\ IdsOf(want) = ({new_refs[r] : r \in DOMAIN new_refs} \ {ZERO_SHA}) \ IdsOf(have)
        /\ IdsOf(have) \cap IdsOf(want) = {}
        /\ ZERO_SHA \notin IdsOf(have) \cup IdsOf(want)

\* An old ref with the zero id and one with a real id; the new refs hold the zero
\* id, the id the server has and one it has not: have and want hold one id each.
C34_Witness ==
    /\ HeadDone
    /\ refs = ("refs/heads/a" :> ZERO_SHA @@ "refs/heads/b" :> SHA1)
    /\ new_refs = ("refs/heads/a" :> SHA1 @@ "refs/heads/b" :> SHA2)
    /\ have = <<SHA1>>
    /\ want = <<SHA2>>

(***************************************************************************)
(* The tail of a push (C35).                                               *)
(***************************************************************************)
\* send_pack has ended after it called _handle_receive_pack_tail.
TailEnded == op = "send" /\ pc = "done" /\ generated # <<>> /\ requests # <<>>
             /\ (transport = "http" => Posts # {})

\* report-status is among the negotiated capabilities.
ReportStatus == InList("report-status", negotiated)

\* The final proto.read() returned bytes.
Residual == eof_data # None /\ eof_data # <<>>

\* The parts of C35 that do not depend on report-status: new_refs is returned only
\* after the final read found nothing, residual data raises SendPackError, and a
\* rejection found by check() is raised before the final read.
EofRequired ==
    TailEnded =>
        /\ result.kind = "returned" => (eof_data = <<>> /\ result = Returned(new_refs))
        /\ Residual => result = Raised("SendPackError")
        /\ (ReportStatus /\ rsp_check # NotCalled /\ rsp_check.exc # "none") =>
              (eof_data = None /\ result = Raised(rsp_check.exc))

\* C35 as stated: the above, and without report-status any byte of response at all
\* makes the call raise.
C35_TailRequiresEof ==
    /\ EofRequired
    /\ (TailEnded /\ ~ReportStatus /\ (consumed # <<>> \/ Residual)) =>
          result.kind = "raised"

\* C35 amended: the above, and without report-status any byte of response other
\* than the sideband's progress packets and the flush that ends them makes the call
\* raise.
C35_TailRequiresEofAfterSideband ==
    /\ EofRequired
    /\ (TailEnded /\ ~ReportStatus
          /\ ((\E i \in 1..Len(consumed) : consumed[i][1] # 2) \/ Residual)) =>
          result.kind = "raised"

\* Without report-status a progress packet and the flush were read, and the final
\* read returned a byte: SendPackError.
C35_Witness ==
    /\ TailEnded
    /\ ~ReportStatus
    /\ consumed = <<<<2, "progress">>>>
    /\ eof_data = <<"x">>
    /\ result = Raised("SendPackError")

(***************************************************************************)
(* The objects commit_tree persists (C36).                                 *)
(***************************************************************************)
\* The directories above the paths of the blobs, the root (the empty path) included.
DirsOf(blobs) ==
    LET Above(p) == {SubSeq(p, 1, k - 1) : k \in {n \in 1..Len(p) : p[n] = 47}}
    IN  {<<>>} \cup UNION {Above(blobs[i].path) : i \in 1..Len(blobs)}

\* The add_object calls of a commit_tree call: each directory above an input path is
\* added once and nothing else is, a tree is added after the sub-trees its entries
\* refer to, the root is added last and its id is returned.
BottomUp(blobs, ret) ==
    LET added == ret.added IN
    /\ \A d \in DirsOf(blobs) : Cardinality({i \in 1..Len(added) : added[i].path = d}) = 1
    /\ \A i \in 1..Len(added) : added[i].path \in DirsOf(blobs)
    /\ \A j \in 1..Len(added) : \A e \in added[j].id.tree :
          e.mode = 16384 =>
              \E i \in 1..(j - 1) :
                  added[i].id = e.sha /\ added[i].path = pathjoin(added[j].path, e.name)
    /\ added[Len(added)] = [path |-> <<>>, id |-> ret.id]
    /\ blobs = <<>> => added = <<[path |-> <<>>, id |-> TreeOf(<<>>)]>>

\* C36 as stated: commit_tree adds the root and every directory above an input path
\* to the object store once, a sub-tree before the tree that refers to it and the
\* root last, and returns the root's id; for no blobs it adds one empty tree.
C36_BottomUp ==
    ix_call.op = "commit_tree" => BottomUp(ix_call.blobs, ix_call.ret)

\* C36 amended: the same for input paths none of which is a directory above another.
C36_BottomUpNoConflict ==
    (ix_call.op = "commit_tree" /\ NoDirConflict(ix_call.blobs)) =>
        BottomUp(ix_call.blobs, ix_call.ret)

\* The blobs a/b/c and d: the trees of a/b, of a and of the root were added, in
\* that order.
C36_Witness ==
    /\ ix_call.op = "commit_tree"
    /\ Len(ix_call.blobs) = 2
    /\ ix_call.blobs[1].path = <<97, 47, 98, 47, 99>>
    /\ ix_call.blobs[2].path = <<100>>
    /\ Len(ix_call.ret.added) = 3
    /\ [i \in 1..3 |-> ix_call.ret.added[i].path] = <<(<<97, 47, 98>>), (<<97>>), (<<>>)>>

(***************************************************************************)
(* A failed Index.read() (C37).                                            *)
(***************************************************************************)
\* C37: when Index.read() raises, the Index holds the entries it held before the
\* call (none, for the Index read here) and none decoded from the unusable file.
C37_NoPartialRecovery ==
    (ix_pc = "loaded" /\ ix_result.err # "") => ix_result.dict = EmptyDict

(***************************************************************************)
(* GitClient.fetch and the object store (C38).                             *)
(***************************************************************************)
\* The number of times a call is in the log.
Count(log, call) == Cardinality({i \in 1..Len(log) : log[i] = call})

\* fetch_pack has returned or raised.
FetchPackEnded == result.kind \in {"returned", "raised"}

\* C38: in GitClient.fetch add_pack() is called before the connection is opened or a
\* request made; commit() is called only once fetch_pack has returned or raised, and
\* once in all when fetch ends, whether fetch_pack returned or raised and whether or
\* not pack data was received.
C38_CommitOnce ==
    /\ []((requests # <<>> \/ pc \notin {"fetch"}) =>
              (store_log # <<>> /\ store_log[1] = "add_pack"))
    /\ [](Count(store_log, "add_pack") <= 1 /\ Count(store_log, "commit") <= 1)
    /\ [][Count(store_log', "commit") # Count(store_log, "commit") =>
              (FetchPackEnded /\ pc = "done" /\ UNCHANGED <<result, pack_data, written>>)]_vars
    /\ [](pc = "finished" =>
              (FetchPackEnded /\ Count(store_log, "commit") = 1
               /\ Count(store_log, "add_pack") = 1))
    /\ [](~FetchPackEnded => Count(store_log, "commit") = 0)

\* fetch_pack raised on an unknown sideband channel before any pack data came, and
\* commit() was called once after that.
C38_Witness ==
    /\ pc = "finished"
    /\ result = Raised("AssertionError")
    /\ consumed # <<>>
    /\ pack_data = <<>>
    /\ store_log = <<"add_pack", "commit">>

(***************************************************************************)
(* A ref left out of the new refs (C39).                                   *)
(***************************************************************************)
\* The refs the server advertised with a real id that determine_wants left out.
Omitted == {r \in DOMAIN refs : refs[r] # ZERO_SHA /\ r \notin DOMAIN new_refs}

\* The ref-update lines written for a ref.
LinesFor(r) == {i \in Written("update") : written[i][4] = r}

\* C39: a ref advertised with a real id and missing from what determine_wants
\* returned is sent as a deletion: one line from its old id to the zero id; its old
\* id is in have, want holds only ids of the new refs, and lines, have and want are
\* those of a mapping that gives the ref the zero id.
C39_OmittedRefDeleted ==
    HeadDone =>
        \A r \in Omitted :
            /\ Cardinality(LinesFor(r)) = 1
            /\ \A i \in LinesFor(r) : written[i][2] = refs[r] /\ written[i][3] = ZERO_SHA
            /\ refs[r] \in IdsOf(have)
            /\ IdsOf(want) \subseteq {new_refs[n] : n \in DOMAIN new_refs}
            /\ \A order \in Orders(AllRefNames) :
                  receive_pack_head(negotiated, refs, ref_order, new_refs, order)
                    = receive_pack_head(negotiated, refs, ref_order,
                                        With(new_refs, r, ZERO_SHA), order)

\* The server advertised two refs and determine_wants returned the first alone: the
\* second was sent as a deletion, nothing was wanted, and send_pack returned.
C39_Witness ==
    /\ HeadDone
    /\ pc = "done"
    /\ DOMAIN refs = {"refs/heads/a", "refs/heads/b"}
    /\ new_refs = ("refs/heads/a" :> refs["refs/heads/a"])
    /\ Omitted = {"refs/heads/b"}
    /\ \E i \in Written("update") :
          written[i][2] = refs["refs/heads/b"] /\ written[i][3] = ZERO_SHA
    /\ want = <<>>
    /\ result = Returned(new_refs)

(***************************************************************************)
(* A status report that is a flush only (C40).                            *)
(***************************************************************************)
\* The packets the tail handed to the status parser, in order: the payload of the
\* sideband's channel 1, or the lines of read_pkt_seq, which stops at the flush
\* without yielding it.
RECURSIVE StatusPkts(_)
StatusPkts(pkts) ==
    IF pkts = <<>> THEN <<>>
    ELSE IF ~InList("side-band-64k", negotiated) THEN pkts
    ELSE (IF Head(pkts)[1] = 1 THEN Tail(Head(pkts)) ELSE <<>>) \o StatusPkts(Tail(pkts))

\* The status report was a flush only, and check() was reached.
FlushOnlyReport ==
    /\ TailEnded
    /\ ReportStatus
    /\ StatusPkts(consumed) \in {<<>>, <<None>>}
    /\ rsp_check # NotCalled

\* C40: with report-status negotiated and a status report that is a flush only,
\* check() returns without raising, and send_pack returns new_refs when the final
\* read finds the connection at EOF.
C40_EmptyReportSucceeds ==
    FlushOnlyReport =>
        /\ parser.pack_status = None
        /\ parser.ref_statuses = <<>>
        /\ check(parser) = NoError
        /\ rsp_check = NoError
        /\ eof_data = <<>> => result = Returned(new_refs)

\* Over the sideband the report was the flush alone, the parser is done without a
\* status, and the call returned new_refs after EOF.
C40_Witness ==
    /\ FlushOnlyReport
    /\ consumed = <<<<1, None>>>>
    /\ parser.done
    /\ parser.pack_status = None
    /\ new_refs # << >>
    /\ eof_data = <<>>
    /\ result = Returned(new_refs)
====
